---- MODULE Spec2Model ----
(***************************************************************************)
(* StorePulse forecasting core: the NB-INGARCH estimator, its closed-form   *)
(* AR(1) fallback, the recursive forecaster, the quality gate and the       *)
(* training pipeline of ml/train_ingarch.py.                                *)
(*                                                                          *)
(* Floating-point numbers are modelled as exact rationals <<num, den>>      *)
(* with den > 0; NaN is <<0, 0>> and +inf is <<1, 0>>.                      *)
(***************************************************************************)
EXTENDS Integers, Sequences, FiniteSets, TLC

\* ------------------------------------------------------------------ bounds
\* longest training series explored
MaxObs == 3
\* largest autoregressive order p explored
MaxP == 2
\* longest forecast horizon explored
MaxHorizon == 2

\* ------------------------------------------------------- rational numbers
RECURSIVE GCD(_, _)
GCD(a, b) == IF b = 0 THEN a ELSE GCD(b, a % b)

Abs(n) == IF n < 0 THEN -n ELSE n

Norm(x) ==
    IF x[2] = 0 THEN x
    ELSE LET s == IF x[2] < 0 THEN -1 ELSE 1
             g == GCD(Abs(x[1]), Abs(x[2]))
         IN  <<(s * x[1]) \div g, (s * x[2]) \div g>>

R(n) == <<n, 1>>
Frac(n, d) == Norm(<<n, d>>)
NaN == <<0, 0>>
PosInf == <<1, 0>>
IsNaN(x) == x = NaN
IsFinite(x) == x[2] > 0

\* the arithmetic cancels common factors before it multiplies, which keeps the
\* intermediate integers small; the values are those of the plain formulas
RAdd(a, b) ==
    IF a[2] = 0 \/ b[2] = 0 THEN Norm(<<a[1] * b[2] + b[1] * a[2], a[2] * b[2]>>)
    ELSE LET g == GCD(a[2], b[2])
         IN  Norm(<<a[1] * (b[2] \div g) + b[1] * (a[2] \div g), (a[2] \div g) * b[2]>>)
RNeg(a) == <<-a[1], a[2]>>
RSub(a, b) == RAdd(a, RNeg(b))
RMul(a, b) ==
    IF a[2] = 0 \/ b[2] = 0 THEN Norm(<<a[1] * b[1], a[2] * b[2]>>)
    ELSE LET g1 == GCD(Abs(a[1]), b[2])
             g2 == GCD(Abs(b[1]), a[2])
         IN  Norm(<<(a[1] \div g1) * (b[1] \div g2), (a[2] \div g2) * (b[2] \div g1)>>)
\* a / b for finite a and finite non-zero b
RDiv(a, b) ==
    IF a[2] = 0 \/ b[2] = 0 \/ b[1] = 0 THEN Norm(<<a[1] * b[2], a[2] * b[1]>>)
    ELSE RMul(a, IF b[1] < 0 THEN <<-b[2], -b[1]>> ELSE <<b[2], b[1]>>)
RAbs(a) == <<Abs(a[1]), a[2]>>
\* comparisons of finite rationals
RLt(a, b) ==
    IF a[2] = 0 \/ b[2] = 0 THEN a[1] * b[2] < b[1] * a[2]
    ELSE LET g == GCD(a[2], b[2])
         IN  a[1] * (b[2] \div g) < b[1] * (a[2] \div g)
RLe(a, b) ==
    IF a[2] = 0 \/ b[2] = 0 THEN a[1] * b[2] <= b[1] * a[2]
    ELSE LET g == GCD(a[2], b[2])
         IN  a[1] * (b[2] \div g) <= b[1] * (a[2] \div g)
\* Python's max(a, b): a unless b > a; min(a, b): a unless b < a
PyMax(a, b) == IF RLt(a, b) THEN b ELSE a
PyMin(a, b) == IF RLt(b, a) THEN b ELSE a

RECURSIVE RSum(_)
RSum(s) == IF s = <<>> THEN R(0) ELSE RAdd(Head(s), RSum(Tail(s)))

\* np.mean of a non-empty array
Mean(s) == RDiv(RSum(s), R(Len(s)))

\* np.dot of two vectors of equal length
RECURSIVE Dot(_, _)
Dot(a, b) == IF a = <<>> THEN R(0) ELSE RAdd(RMul(Head(a), Head(b)), Dot(Tail(a), Tail(b)))

\* a[lo:hi] of numpy and of Python lists (0-based, end exclusive, truncating)
Slice(s, lo, hi) ==
    LET h == IF hi < Len(s) THEN hi ELSE Len(s)
    IN  IF lo >= h THEN <<>> ELSE SubSeq(s, lo + 1, h)

\* Optional values: None is the empty tuple, Some(x) the one-element tuple
None == <<>>
Some(x) == <<x>>
IsNone(o) == o = <<>>
The(o) == o[1]

\* all sequences over S of length lo..hi
SeqsOf(S, lo, hi) == UNION {[1..n -> S] : n \in lo..hi}

\* a matrix is [w |-> columns, rows |-> sequence of rows of length w]
Matrices(S, w, lo, hi) == {[w |-> w, rows |-> rs] : rs \in SeqsOf([1..w -> S], lo, hi)}

\* ------------------------------------------------------------ value grids
\* observed daily counts
CountSet == {R(0), R(3)}
\* coefficients an optimizer may return (negative ones included)
InterceptSet == {R(-2), Frac(1, 2)}
CoefSet == {R(-1), Frac(1, 2)}
\* entries of an exogenous row
ExogSet == {R(0), R(2)}
\* widths of the exogenous matrix explored
WidthSet == {0, 1}

VARIABLES
    model,          \* the estimator object predict is called on
    pr_pc,          \* position of the predict call: idle, loop, returned, raised
    pr_exog,        \* the exog argument (optional matrix)
    pr_n_steps,     \* n_steps
    pr_h,           \* loop index h
    predictions,    \* predictions filled so far
    recent_obs,     \* the rolling buffer
    gate_pc,        \* position of the _quality_gate call: idle, returned, raised
    gate_args,      \* its arguments
    gate_result,    \* the dict it returns
    fit_pc,         \* position of the _fit_ingarch call
    fit_in,         \* its arguments: the frame's visits, feature_cols, p, q
    fit_model,      \* the NBINGARCHModel object being fitted
    fit_start,      \* start_params
    opt_result,     \* what optimize.minimize returned: [x, success], if it returned
    obj_raised,     \* whether the objective raised during optimize.minimize
    estimator,      \* what _fit_ingarch returned
    fit_preds,      \* the outcome of predict on the returned estimator
    tr_pc,          \* position of the train call
    tr_in,          \* its inputs: the feature frame, dataset stem, p, q, sampling_mode
    tr_fitted,      \* what _fit_ingarch returned and the sMAPE train first computed for it
    tr_model,       \* the local variable model
    tr_preds,       \* the local variable preds
    tr_metrics,     \* model_smape, model_mase, model_rmse
    tr_cmp,         \* ma7_smape, naive_smape
    tr_gate,        \* the dict _quality_gate returned
    artifact,       \* model_info as dumped to ingarch_model.joblib
    report,         \* the report as written to ingarch_report.json
    registry,       \* the row register_model stored
    bt_pc,          \* position of the _rolling_origin_backtest call
    bt_in,          \* its arguments: frame, feature_cols, p, q
    bt_idx,         \* how many entries of unique_periods[1:] the loop has taken
    fold_rows,      \* fold_rows
    bt_folds,       \* history: the train and test rows each evaluated fold used
    lk_pc,          \* position of the _nloglik call: pass, sum, returned
    lk_in,          \* the model and the params argument
    lk_t,           \* the forward pass's index t
    mu_series,      \* mu_series
    phi_series,     \* phi_series
    residuals,      \* residuals
    lk_calls,       \* the (y, mu, phi) passed to _negative_binomial_loglik
    rp_model0,      \* history: the model as it was before the first predict call
    rp_log,         \* history: arguments and outcome of the predict calls completed
    rp_calls,       \* how many predict calls have completed
    cal_pc,         \* position in calibrate_intervals: off, start, widen, narrow,
                    \* folds, returned, raised
    cal_in,         \* its arguments: residuals_by_fold, lower, upper, coverage_band
    lower_idx,      \* index of the lower edge in residuals_sorted
    upper_idx,      \* index of the upper edge
    alpha_low,      \* the lower edge
    alpha_high,     \* the upper edge
    coverage,       \* overall coverage of [alpha_low, alpha_high]
    cal_fold,       \* how many folds the per-fold loop has handled
    fold_coverages, \* the FoldCoverage entries appended so far
    cal_branch,     \* history: which search branch was entered: none, widen, narrow
    cal_iters,      \* history: iterations of the search loop so far
    cal_prev,       \* history: the coverage before the latest iteration
    p10,            \* the lower band of the result, one value per forecast point
    p50,            \* the median forecast of the result
    p90,            \* the upper band of the result
    cal_log,        \* history: arguments and results of the calibrations returned
    cal_calls,      \* how many calibrate_intervals calls have completed
    rt_pc,          \* position of a training request: off, request, rejected,
                    \* stream, closed
    rt_req,         \* the request: how the dataset arrived and its visit counts
    status_code,    \* the HTTP status of the response (0 while none is sent)
    visits_table,   \* the visits table: the stored visit history
    rt_visits0,     \* history: the visits table when the request arrived
    warnings,       \* dataset.warnings
    rt_step,        \* the statement _run_pipeline is at
    rt_k,           \* index of the next entry of the progress list
    events,         \* the events yielded to the stream so far
    rt_trained,     \* how many times train_ingarch.train has been called
    sv_clock,       \* the wall clock, in seconds
    sv_ticks,       \* how many times the clock has advanced
    sv_run,         \* position of each training run: idle, dumped, registered, failed
    sv_artifact,    \* the run whose model ingarch_model.joblib holds (0: no file)
    models,         \* the rows of the models table
    sv_regorder,    \* history: the runs in the order they were registered
    model_cache,    \* ForecastService._model_cache[mode]
    forecast_cache, \* the forecast_cache row of (today, horizon, mode)
    fc_pc,          \* position of the forecast request: idle, load, artifact,
                    \* compute, answered
    fc_cfg,         \* cache_cfg of the request
    fc_info,        \* model_info read by _load_model_bundle
    fc_bundle,      \* the bundle _load_model_bundle returned
    fc_resp,        \* the response of the request
    fc_seen,        \* history: how many runs were registered when the request
                    \* last looked at the caches
    fc_count        \* how many forecast requests have been answered

predictVars == <<model, pr_pc, pr_exog, pr_n_steps, pr_h, predictions, recent_obs>>
gateVars == <<gate_pc, gate_args, gate_result>>
fitVars == <<fit_pc, fit_in, fit_model, fit_start, opt_result, obj_raised, estimator, fit_preds>>
trainVars == <<tr_pc, tr_in, tr_fitted, tr_model, tr_preds, tr_metrics, tr_cmp, tr_gate,
               artifact, report, registry>>
backtestVars == <<bt_pc, bt_in, bt_idx, fold_rows, bt_folds>>
likVars == <<lk_pc, lk_in, lk_t, mu_series, phi_series, residuals, lk_calls>>
replayVars == <<rp_model0, rp_log, rp_calls>>
calVars == <<cal_pc, cal_in, lower_idx, upper_idx, alpha_low, alpha_high, coverage,
             cal_fold, fold_coverages, cal_branch, cal_iters, cal_prev,
             p10, p50, p90, cal_log, cal_calls>>
routeVars == <<rt_pc, rt_req, status_code, visits_table, rt_visits0, warnings, rt_step, rt_k,
               events, rt_trained>>
serveVars == <<sv_clock, sv_ticks, sv_run, sv_artifact, models, sv_regorder, model_cache,
               forecast_cache, fc_pc, fc_cfg, fc_info, fc_bundle, fc_resp, fc_seen, fc_count>>
vars == <<predictVars, gateVars, fitVars, trainVars, backtestVars, likVars, replayVars,
          calVars, routeVars, serveVars>>

\* what each component's actions leave alone
predictRest == <<gateVars, fitVars, trainVars, backtestVars, likVars, replayVars, calVars,
     routeVars, serveVars>>
gateRest == <<predictVars, fitVars, trainVars, backtestVars, likVars, replayVars, calVars,
     routeVars, serveVars>>
fitRest == <<predictVars, gateVars, trainVars, backtestVars, likVars, replayVars, calVars,
     routeVars, serveVars>>
trainRest == <<predictVars, gateVars, fitVars, backtestVars, likVars, replayVars, calVars,
     routeVars, serveVars>>
likRest == <<predictVars, gateVars, fitVars, trainVars, backtestVars, replayVars, calVars,
     routeVars, serveVars>>
backtestRest == <<predictVars, gateVars, fitVars, trainVars, likVars, replayVars, calVars,
     routeVars, serveVars>>
calRest == <<predictVars, gateVars, fitVars, trainVars, backtestVars, likVars, replayVars,
            routeVars, serveVars>>
routeRest == <<predictVars, gateVars, fitVars, trainVars, backtestVars, likVars, replayVars,
              calVars, serveVars>>
serveRest == <<predictVars, gateVars, fitVars, trainVars, backtestVars, likVars, replayVars,
              calVars, routeVars>>

\* a component that is not running
PredictIdle ==
    /\ model = <<>>
    /\ pr_pc = "off"
    /\ pr_exog = <<>>
    /\ pr_n_steps = 0
    /\ pr_h = 0
    /\ predictions = <<>>
    /\ recent_obs = <<>>

GateIdle ==
    /\ gate_pc = "off"
    /\ gate_args = <<>>
    /\ gate_result = <<>>

FitIdle ==
    /\ fit_pc = "off"
    /\ fit_in = <<>>
    /\ fit_model = <<>>
    /\ fit_start = <<>>
    /\ opt_result = <<>>
    /\ obj_raised = FALSE
    /\ estimator = <<>>
    /\ fit_preds = <<>>

TrainIdle ==
    /\ tr_pc = "off"
    /\ tr_in = <<>>
    /\ tr_fitted = <<>>
    /\ tr_model = <<>>
    /\ tr_preds = <<>>
    /\ tr_metrics = <<>>
    /\ tr_cmp = <<>>
    /\ tr_gate = <<>>
    /\ artifact = <<>>
    /\ report = <<>>
    /\ registry = <<>>

BacktestIdle ==
    /\ bt_pc = "off"
    /\ bt_in = <<>>
    /\ bt_idx = 0
    /\ fold_rows = <<>>
    /\ bt_folds = <<>>

CalIdle ==
    /\ cal_pc = "off"
    /\ cal_in = <<>>
    /\ lower_idx = 0
    /\ upper_idx = 0
    /\ alpha_low = 0
    /\ alpha_high = 0
    /\ coverage = NaN
    /\ cal_fold = 0
    /\ fold_coverages = <<>>
    /\ cal_branch = "none"
    /\ cal_iters = 0
    /\ cal_prev = NaN
    /\ p10 = <<>>
    /\ p50 = <<>>
    /\ p90 = <<>>
    /\ cal_log = {}
    /\ cal_calls = 0

RouteIdle ==
    /\ rt_pc = "off"
    /\ rt_req = <<>>
    /\ status_code = 0
    /\ visits_table = <<>>
    /\ rt_visits0 = <<>>
    /\ warnings = <<>>
    /\ rt_step = "none"
    /\ rt_k = 0
    /\ events = <<>>
    /\ rt_trained = 0

ServeIdle ==
    /\ sv_clock = 0
    /\ sv_ticks = 0
    /\ sv_run = <<>>
    /\ sv_artifact = 0
    /\ models = {}
    /\ sv_regorder = <<>>
    /\ model_cache = <<>>
    /\ forecast_cache = <<>>
    /\ fc_pc = "off"
    /\ fc_cfg = <<>>
    /\ fc_info = <<>>
    /\ fc_bundle = <<>>
    /\ fc_resp = <<>>
    /\ fc_seen = 0
    /\ fc_count = 0

ReplayIdle ==
    /\ rp_model0 = <<>>
    /\ rp_log = {}
    /\ rp_calls = 0

LikIdle ==
    /\ lk_pc = "off"
    /\ lk_in = <<>>
    /\ lk_t = 0
    /\ mu_series = <<>>
    /\ phi_series = <<>>
    /\ residuals = <<>>
    /\ lk_calls = <<>>

\* ------------------------------------------------ NBINGARCHModel.predict
\* positivity floor of a forecast: mu = max(mu, 0.01)
MuFloor == Frac(1, 100)

PositiveFloor_NoFloor(mu) == mu

PositiveFloor(mu) == PyMax(mu, MuFloor)

\* n_exog as predict derives it: the training matrix's width, else the argument's
PredictNExog(m, exog) ==
    IF ~IsNone(m.exog) THEN The(m.exog).w
    ELSE IF ~IsNone(exog) THEN The(exog).w ELSE 0

PredictBetaAr(m) == IF m.p > 0 THEN Slice(The(m.params), 1, 1 + m.p) ELSE <<>>

PredictGammaExog(m, exog) ==
    LET n_exog == PredictNExog(m, exog)
    IN  IF n_exog > 0 THEN Slice(The(m.params), 1 + m.p, 1 + m.p + n_exog) ELSE <<>>

\* n_steps: rows of exog, else n_ahead, else 1
PredictNSteps(exog, n_ahead) ==
    IF ~IsNone(exog) THEN Len(The(exog).rows)
    ELSE IF ~IsNone(n_ahead) THEN The(n_ahead) ELSE 1

SeedBuffer_TakeFirst(m) ==
    LET ro == IF m.p > 0 /\ Len(m.endog) >= m.p
              THEN Slice(m.endog, 0, m.p) ELSE <<>>
    IN  IF Len(ro) < m.p
        THEN [i \in 1..(m.p - Len(ro)) |-> Mean(m.endog)] \o ro
        ELSE ro

\* recent_obs before the loop: the last p observations, or p copies of the
\* series mean when fewer than p observations exist
SeedBuffer(m) ==
    LET ro == IF m.p > 0 /\ Len(m.endog) >= m.p
              THEN Slice(m.endog, Len(m.endog) - m.p, Len(m.endog)) ELSE <<>>
    IN  IF Len(ro) < m.p
        THEN [i \in 1..(m.p - Len(ro)) |-> Mean(m.endog)] \o ro
        ELSE ro

\* the AR terms of step h, for i = from .. p-1
RECURSIVE ArTerms(_, _, _, _, _)
ArTerms(m, h, buf, preds, from) ==
    IF from >= m.p THEN R(0)
    ELSE LET beta_ar == PredictBetaAr(m)
             term == IF from < Len(buf)
                     THEN RMul(beta_ar[from + 1], buf[Len(buf) - from])
                     ELSE IF h - from - 1 >= 0
                          THEN RMul(beta_ar[from + 1], preds[h - from])
                          ELSE R(0)
         IN  RAdd(term, ArTerms(m, h, buf, preds, from + 1))

\* np.dot(exog[h, :], gamma_exog) is evaluated at step h
ExogTermUsed(m, exog, h) ==
    /\ ~IsNone(exog)
    /\ Len(PredictGammaExog(m, exog)) > 0
    /\ Len(The(exog).rows) > h

\* np.dot raises ValueError on vectors of different lengths
DotRaises(m, exog, h) ==
    /\ ExogTermUsed(m, exog, h)
    /\ The(exog).w # Len(PredictGammaExog(m, exog))

\* the forecast of step h (0-based) given the buffer and the forecasts so far
StepMu(m, exog, h, buf, preds) ==
    LET beta0 == The(m.params)[1]
        ex == IF ExogTermUsed(m, exog, h)
              THEN Dot(The(exog).rows[h + 1], PredictGammaExog(m, exog))
              ELSE R(0)
    IN  PositiveFloor(RAdd(RAdd(beta0, ArTerms(m, h, buf, preds, 0)), ex))

\* recent_obs = recent_obs[1:] + [mu]
RollBuffer(buf, mu) == Slice(buf, 1, Len(buf)) \o <<mu>>

\* the whole loop from step h on: [raised, predictions]
RECURSIVE PredictLoop(_, _, _, _, _, _)
PredictLoop(m, exog, n_steps, h, buf, preds) ==
    IF h >= n_steps THEN [raised |-> FALSE, predictions |-> preds]
    ELSE IF DotRaises(m, exog, h) THEN [raised |-> TRUE, predictions |-> preds]
    ELSE LET mu == StepMu(m, exog, h, buf, preds)
         IN  PredictLoop(m, exog, n_steps, h + 1, RollBuffer(buf, mu), Append(preds, mu))

\* NBINGARCHModel.predict as one call
NBPredict(m, exog, n_ahead) ==
    IF IsNone(m.params) THEN [raised |-> TRUE, predictions |-> <<>>]
    ELSE PredictLoop(m, exog, PredictNSteps(exog, n_ahead), 0, SeedBuffer(m), <<>>)

\* ------------------------------------------------ BaselineARModel.predict
NonNegative_NoFloor(yhat) == yhat

\* preds[t] = max(yhat, 0.0)
NonNegative(yhat) == PyMax(yhat, R(0))

RECURSIVE BaselineLoop(_, _, _)
BaselineLoop(m, prev, n) ==
    IF n = 0 THEN <<>>
    ELSE LET y == NonNegative(RAdd(m.intercept, RMul(m.phi, prev)))
         IN  <<y>> \o BaselineLoop(m, y, n - 1)

BaselineSeed(m, exog) ==
    IF /\ ~IsNone(exog)
       /\ ~IsNone(m.lag1_index)
       /\ 0 <= The(m.lag1_index)
       /\ The(m.lag1_index) < The(exog).w
    THEN The(exog).rows[1][The(m.lag1_index) + 1]
    ELSE m.intercept

BaselinePredict(m, exog) ==
    LET n == IF ~IsNone(exog) THEN Len(The(exog).rows) ELSE 0
    IN  IF n <= 0 THEN <<>> ELSE BaselineLoop(m, BaselineSeed(m, exog), n)

\* ------------------------------------------- the predict specification
\* dispersion orders explored
QSet == {0, 1}

\* a training exogenous matrix of width w aligned with the series (predict reads
\* only its width)
TrainExog(n, w) == Some([w |-> w, rows |-> [t \in 1..n |-> [j \in 1..w |-> R(0)]]])

\* parameter vectors in the layout fit produces:
\* [beta0, p AR, n_exog exogenous, alpha0, q ARCH]
ParamVectors(p, n_exog, q) ==
    {<<b0>> \o ar \o ga \o <<Frac(1, 10)>> \o [k \in 1..q |-> Frac(3, 100)] :
        b0 \in InterceptSet, ar \in [1..p -> CoefSet], ga \in [1..n_exog -> CoefSet]}

\* the attributes of an NBINGARCHModel; loglik exists only once fit has set it
IngarchModel(endog, exog, p, q, params) ==
    [kind |-> "INGARCH", endog |-> endog, exog |-> exog, p |-> p, q |-> q,
     n_obs |-> Len(endog), params |-> params, mu_t |-> None, phi_t |-> None,
     loglik |-> None]

FittedModels ==
    UNION {UNION {UNION {UNION {
        {IngarchModel(e, IF w = 0 THEN None ELSE TrainExog(Len(e), w), p, q, Some(v)) :
            v \in ParamVectors(p, w, q)} :
        q \in QSet} : w \in WidthSet} : p \in 0..MaxP} : e \in SeqsOf(CountSet, 1, MaxObs)}

UnfittedModels ==
    {IngarchModel(e, None, 1, 1, None) : e \in SeqsOf(CountSet, 1, 1)}

BaselineARModel(phi, intercept, lag1_index) ==
    [kind |-> "BASELINE_AR", phi |-> phi, intercept |-> intercept,
     lag1_index |-> lag1_index]

BaselineModels ==
    {BaselineARModel(phi, c, l) :
        phi \in CoefSet \cup {R(0)}, c \in InterceptSet \cup {R(3)}, l \in {None, Some(0)}}

\* exog arguments of a call: None, or a matrix of 0..MaxHorizon rows
ExogArgs == {None} \cup UNION {{Some(x) : x \in Matrices(ExogSet, w, 0, MaxHorizon)} : w \in WidthSet}
NAheadArgs == {None} \cup {Some(k) : k \in 0..MaxHorizon}

InitPredict ==
    /\ model \in FittedModels \cup UnfittedModels \cup BaselineModels
    /\ pr_pc = "idle"
    /\ pr_exog = None
    /\ pr_n_steps = 0
    /\ pr_h = 0
    /\ predictions = <<>>
    /\ recent_obs = <<>>
    /\ GateIdle
    /\ FitIdle
    /\ TrainIdle
    /\ BacktestIdle
    /\ LikIdle
    /\ ReplayIdle
    /\ CalIdle
    /\ RouteIdle
    /\ ServeIdle

\* predict on a model without parameters raises ValueError
PredictUnfitted ==
    /\ pr_pc = "idle"
    /\ model.kind = "INGARCH"
    /\ IsNone(model.params)
    /\ pr_pc' = "raised"
    /\ UNCHANGED <<model, pr_exog, pr_n_steps, pr_h, predictions, recent_obs>>
    /\ UNCHANGED predictRest

\* entry of NBINGARCHModel.predict up to the loop
PredictStart ==
    /\ pr_pc = "idle"
    /\ model.kind = "INGARCH"
    /\ ~IsNone(model.params)
    /\ \E exog \in ExogArgs, n_ahead \in NAheadArgs :
          /\ IsNone(exog) \/ IsNone(n_ahead)
          /\ pr_exog' = exog
          /\ pr_n_steps' = PredictNSteps(exog, n_ahead)
    /\ pr_h' = 0
    /\ predictions' = <<>>
    /\ recent_obs' = SeedBuffer(model)
    /\ pr_pc' = "loop"
    /\ UNCHANGED model
    /\ UNCHANGED predictRest

PredictStep_ExtendsEndog ==
    /\ pr_pc = "loop"
    /\ pr_h < pr_n_steps
    /\ ~DotRaises(model, pr_exog, pr_h)
    /\ LET mu == StepMu(model, pr_exog, pr_h, recent_obs, predictions)
       IN  /\ predictions' = Append(predictions, mu)
           /\ recent_obs' = RollBuffer(recent_obs, mu)
           /\ model' = [model EXCEPT !.endog = Append(@, mu)]
    /\ pr_h' = pr_h + 1
    /\ UNCHANGED <<pr_pc, pr_exog, pr_n_steps>>
    /\ UNCHANGED predictRest

\* one iteration of the forecast loop
PredictStep ==
    /\ pr_pc = "loop"
    /\ pr_h < pr_n_steps
    /\ ~DotRaises(model, pr_exog, pr_h)
    /\ LET mu == StepMu(model, pr_exog, pr_h, recent_obs, predictions)
       IN  /\ predictions' = Append(predictions, mu)
           /\ recent_obs' = RollBuffer(recent_obs, mu)
    /\ pr_h' = pr_h + 1
    /\ UNCHANGED <<model, pr_pc, pr_exog, pr_n_steps>>
    /\ UNCHANGED predictRest

\* np.dot raises inside the loop
PredictStepRaises ==
    /\ pr_pc = "loop"
    /\ pr_h < pr_n_steps
    /\ DotRaises(model, pr_exog, pr_h)
    /\ pr_pc' = "raised"
    /\ UNCHANGED <<model, pr_exog, pr_n_steps, pr_h, predictions, recent_obs>>
    /\ UNCHANGED predictRest

PredictReturn ==
    /\ pr_pc = "loop"
    /\ pr_h >= pr_n_steps
    /\ pr_pc' = "returned"
    /\ UNCHANGED <<model, pr_exog, pr_n_steps, pr_h, predictions, recent_obs>>
    /\ UNCHANGED predictRest

\* BaselineARModel.predict, a whole call
BaselinePredictCall ==
    /\ pr_pc = "idle"
    /\ model.kind = "BASELINE_AR"
    /\ \E exog \in ExogArgs :
          /\ pr_exog' = exog
          /\ pr_n_steps' = (IF IsNone(exog) THEN 0 ELSE Len(The(exog).rows))
          /\ predictions' = BaselinePredict(model, exog)
    /\ pr_pc' = "returned"
    /\ UNCHANGED <<model, pr_h, recent_obs>>
    /\ UNCHANGED predictRest

NextPredict ==
    \/ PredictUnfitted
    \/ PredictStart
    \/ PredictStep
    \/ PredictStepRaises
    \/ PredictReturn
    \/ BaselinePredictCall

SpecPredict == InitPredict /\ [][NextPredict]_vars

\* ------------------------------------------------------ claims on predict
\* C1: every value predict returns is >= 0 at every horizon step, for the
\* NB-INGARCH model and for the AR(1) fallback, whatever the parameters
\* (negative intercepts and coefficients included) and the exogenous input.
C1_PredictNonNegative ==
    \A k \in 1..Len(predictions) : RLe(R(0), predictions[k])

\* C1 witness: a full-horizon NB-INGARCH forecast with a negative intercept
\* whose raw mean was negative and was floored.
C1_Witness ==
    /\ pr_pc = "returned"
    /\ model.kind = "INGARCH"
    /\ Len(predictions) = MaxHorizon
    /\ RLt(The(model.params)[1], R(0))
    /\ model.p >= 1
    /\ RLt(The(model.params)[2], R(0))
    /\ predictions[MaxHorizon] = MuFloor

\* C2 as stated: h forecasts, computed sequentially; the buffer always holds
\* exactly p values and is seeded with the last p observed counts; at step k
\* lag i reads the forecast of step k-i when k-i >= 0 and otherwise the
\* observed count i-k positions from the end of the training series.
C2_AsStated ==
    (model.kind = "INGARCH" /\ pr_pc \in {"loop", "returned"}) =>
        LET n == Len(model.endog)
            hist == model.endog \o predictions
            Lag(k, i) == IF k - i >= 0 THEN predictions[k - i + 1]
                         ELSE model.endog[n - (i - k) + 1]
            RECURSIVE LagSum(_, _)
            LagSum(k, i) == IF i > model.p THEN R(0)
                            ELSE RAdd(RMul(The(model.params)[1 + i], Lag(k, i)),
                                      LagSum(k, i + 1))
            Ex(k) == IF ExogTermUsed(model, pr_exog, k)
                     THEN Dot(The(pr_exog).rows[k + 1], PredictGammaExog(model, pr_exog))
                     ELSE R(0)
        IN  /\ Len(predictions) = pr_h
            /\ pr_pc = "returned" => pr_h = pr_n_steps
            /\ Len(recent_obs) = model.p
            /\ n >= model.p
            /\ recent_obs = SubSeq(hist, Len(hist) - model.p + 1, Len(hist))
            /\ \A k \in 0..(pr_h - 1) :
                  predictions[k + 1] =
                      PyMax(RAdd(RAdd(The(model.params)[1], LagSum(k, 1)), Ex(k)), MuFloor)

\* C2 amended: as stated when p >= 1 and the series has at least p
\* observations; with fewer than p observations every seed is the series
\* mean; with p = 0 the buffer is never read and holds the latest forecast.
C2_SequentialForecast ==
    (model.kind = "INGARCH" /\ pr_pc \in {"loop", "returned"}) =>
        LET n == Len(model.endog)
            seed == IF n >= model.p THEN model.endog
                    ELSE [i \in 1..model.p |-> Mean(model.endog)]
            hist == seed \o predictions
            Lag(k, i) == IF k - i >= 0 THEN predictions[k - i + 1]
                         ELSE seed[Len(seed) - (i - k) + 1]
            RECURSIVE LagSum(_, _)
            LagSum(k, i) == IF i > model.p THEN R(0)
                            ELSE RAdd(RMul(The(model.params)[1 + i], Lag(k, i)),
                                      LagSum(k, i + 1))
            Ex(k) == IF ExogTermUsed(model, pr_exog, k)
                     THEN Dot(The(pr_exog).rows[k + 1], PredictGammaExog(model, pr_exog))
                     ELSE R(0)
        IN  /\ Len(predictions) = pr_h
            /\ pr_pc = "returned" => pr_h = pr_n_steps
            /\ Len(recent_obs) = (IF model.p = 0 THEN (IF pr_h = 0 THEN 0 ELSE 1)
                                  ELSE model.p)
            /\ model.p >= 1 =>
                  recent_obs = SubSeq(hist, Len(hist) - model.p + 1, Len(hist))
            /\ (model.p = 0 /\ pr_h > 0) => recent_obs = <<predictions[pr_h]>>
            /\ \A k \in 0..(pr_h - 1) :
                  predictions[k + 1] =
                      PyMax(RAdd(RAdd(The(model.params)[1], LagSum(k, 1)), Ex(k)), MuFloor)

\* C2 witness: a returned two-lag forecast over more observations than lags,
\* whose buffer has rolled from observed counts over to forecasts.
C2_Witness ==
    /\ pr_pc = "returned"
    /\ model.kind = "INGARCH"
    /\ model.p = 2
    /\ Len(model.endog) = 3
    /\ model.endog[1] # model.endog[3]
    /\ pr_n_steps = MaxHorizon
    /\ Len(predictions) = MaxHorizon
    /\ recent_obs = <<predictions[MaxHorizon - 1], predictions[MaxHorizon]>>
    /\ predictions[1] # predictions[2]

\* the width of the exogenous matrix the model was trained with
TrainedWidth(m) == IF IsNone(m.exog) THEN 0 ELSE The(m.exog).w

\* C26, as stated: the parameter vector is laid out as 1 + p + n_exog mean
\* parameters followed by 1 + q dispersion parameters, n_exog being the
\* width the model was trained with, and whatever exog argument predict is
\* given, the coefficients it multiplies lags and exogenous values with all
\* lie in the mean block: no dispersion parameter is used as a coefficient.
C26_AsStated ==
    (model.kind = "INGARCH" /\ pr_pc \in {"loop", "returned"}) =>
        LET n_mean == 1 + model.p + TrainedWidth(model)
        IN  /\ Len(The(model.params)) = n_mean + 1 + model.q
            /\ Len(PredictBetaAr(model)) = model.p
            /\ \A h \in 0..(pr_h - 1) :
                  ExogTermUsed(model, pr_exog, h) =>
                      1 + model.p + Len(PredictGammaExog(model, pr_exog)) <= n_mean

\* ------------------------------------------------------- _quality_gate
\* x >= y of two floats: False when either is NaN
RGe(x, y) == ~IsNaN(x) /\ ~IsNaN(y) /\ RLe(y, x)
\* x < y of two floats: False when either is NaN
RLtF(x, y) == ~IsNaN(x) /\ ~IsNaN(y) /\ RLt(x, y)

\* dataset file stems, and those that contain "lite"
DatasetStems == {"lite_sample", "pro_sample"}
LiteStems == {"lite_sample"}
SamplingModes == {"demo", "fast", "full"}
RelaxedModes == {"demo", "fast"}

\* lift_pct = ((baseline - model) / baseline) * 100 if baseline else inf
GateLiftPct(model_smape, baseline_smape) ==
    IF baseline_smape = R(0) THEN PosInf
    ELSE RMul(RDiv(RSub(baseline_smape, model_smape), baseline_smape), R(100))

GateApplies_Always(stem) == TRUE

\* gate_applies = "lite" in dataset_path.stem
GateApplies(stem) == stem \in LiteStems

GateThreshold_AlwaysStrict(sampling_mode) == R(8)

GateThreshold_AlwaysRelaxed(sampling_mode) == R(0)

\* threshold = 0.0 if sampling_mode in ["demo", "fast"] else 8.0
GateThreshold(sampling_mode) == IF sampling_mode \in RelaxedModes THEN R(0) ELSE R(8)

\* the whole call: [raised, result]
QualityGate(model_smape, baseline_smape, stem, sampling_mode) ==
    IF IsNaN(model_smape) \/ IsNaN(baseline_smape)
    THEN [raised |-> FALSE,
          result |-> [applies |-> TRUE, threshold_pct |-> R(8), lift_pct |-> NaN,
                      passed |-> FALSE, reason |-> "NaN metrics"]]
    ELSE LET lift_pct == GateLiftPct(model_smape, baseline_smape)
             gate_applies == GateApplies(stem)
             threshold == GateThreshold(sampling_mode)
             low == gate_applies /\ (IsNaN(lift_pct) \/ RLtF(lift_pct, threshold))
         IN  IF low /\ sampling_mode \notin RelaxedModes
             THEN [raised |-> TRUE, result |-> None]
             ELSE [raised |-> FALSE,
                   result |-> [applies |-> gate_applies, threshold_pct |-> threshold,
                               lift_pct |-> lift_pct,
                               passed |-> (~gate_applies) \/
                                          (~IsNaN(lift_pct) /\ RGe(lift_pct, threshold))]]

\* sMAPE values handed to the gate
SmapeSet == {NaN, R(0), R(46), R(48), R(50), R(60)}

InitGate ==
    /\ gate_pc = "idle"
    /\ gate_args \in [model_smape : SmapeSet, baseline_smape : SmapeSet,
                      stem : DatasetStems, sampling_mode : SamplingModes]
    /\ gate_result = None
    /\ PredictIdle
    /\ FitIdle
    /\ TrainIdle
    /\ BacktestIdle
    /\ LikIdle
    /\ ReplayIdle
    /\ CalIdle
    /\ RouteIdle
    /\ ServeIdle

GateReturns ==
    /\ gate_pc = "idle"
    /\ LET g == QualityGate(gate_args.model_smape, gate_args.baseline_smape,
                            gate_args.stem, gate_args.sampling_mode)
       IN  /\ ~g.raised
           /\ gate_result' = Some(g.result)
    /\ gate_pc' = "returned"
    /\ UNCHANGED gate_args
    /\ UNCHANGED gateRest

GateRaises ==
    /\ gate_pc = "idle"
    /\ QualityGate(gate_args.model_smape, gate_args.baseline_smape,
                   gate_args.stem, gate_args.sampling_mode).raised
    /\ gate_pc' = "raised"
    /\ UNCHANGED <<gate_args, gate_result>>
    /\ UNCHANGED gateRest

NextGate == GateReturns \/ GateRaises

SpecGate == InitGate /\ [][NextGate]_vars

\* C9 as stated: in strict mode the gate raises whenever lift_pct =
\* (baseline - model) / baseline x 100 is below 8.
C9_AsStated ==
    (/\ gate_pc # "idle"
     /\ gate_args.sampling_mode \notin RelaxedModes
     /\ ~IsNaN(gate_args.model_smape)
     /\ IsFinite(gate_args.baseline_smape) /\ gate_args.baseline_smape # R(0)
     /\ RLt(RMul(RSub(gate_args.baseline_smape, gate_args.model_smape), R(100)),
            RMul(R(8), gate_args.baseline_smape)))
    => gate_pc = "raised"

\* C9 amended: in strict mode, for a dataset whose file name contains "lite"
\* the gate raises whenever lift_pct is below 8, and the lift it reports
\* satisfies lift_pct x baseline = (baseline - model) x 100; for any other
\* dataset the gate does not apply and never raises.
C9_StrictGate ==
    (gate_pc # "idle" /\ gate_args.sampling_mode \notin RelaxedModes) =>
        LET m == gate_args.model_smape
            b == gate_args.baseline_smape
            below == /\ ~IsNaN(m) /\ IsFinite(b) /\ b # R(0)
                     /\ RLt(RMul(RSub(b, m), R(100)), RMul(R(8), b))
        IN  /\ (gate_args.stem \in LiteStems /\ below) => gate_pc = "raised"
            /\ gate_args.stem \notin LiteStems => gate_pc = "returned"
            /\ (gate_pc = "returned" /\ ~IsNaN(m) /\ IsFinite(b) /\ b # R(0)) =>
                  /\ RMul(The(gate_result).lift_pct, b) = RMul(RSub(b, m), R(100))
                  /\ The(gate_result).threshold_pct = R(8)

\* C9 witness: a strict-mode call on a lite dataset with a 4% lift has raised.
C9_Witness ==
    /\ gate_pc = "raised"
    /\ gate_args.sampling_mode = "full"
    /\ gate_args.stem \in LiteStems
    /\ gate_args.baseline_smape = R(50)
    /\ gate_args.model_smape = R(48)

\* C10: in relaxed mode (demo or fast) the gate never raises, whatever the two
\* sMAPE values (negative lift, zero baseline, NaN); it compares against a
\* threshold of 0, so a model with exactly 0% lift is returned as passed.
C10_RelaxedGate ==
    (gate_pc # "idle" /\ gate_args.sampling_mode \in RelaxedModes) =>
        LET m == gate_args.model_smape
            b == gate_args.baseline_smape
        IN  /\ gate_pc = "returned"
            /\ (~IsNaN(m) /\ ~IsNaN(b)) => The(gate_result).threshold_pct = R(0)
            /\ (~IsNaN(m) /\ ~IsNaN(b) /\ m = b /\ b # R(0)) =>
                  /\ The(gate_result).lift_pct = R(0)
                  /\ The(gate_result).passed

\* C10 witness: a relaxed-mode call on a lite dataset whose model sMAPE equals
\* the baseline's has returned passed with a lift of 0.
C10_Witness ==
    /\ gate_pc = "returned"
    /\ gate_args.sampling_mode = "fast"
    /\ gate_args.stem \in LiteStems
    /\ gate_args.model_smape = R(50)
    /\ gate_args.baseline_smape = R(50)
    /\ The(gate_result).passed
    /\ The(gate_result).lift_pct = R(0)

\* --------------------------------------- NBINGARCHModel.fit, _fit_ingarch
\* the design matrix of a frame: column "lag_1" holds the previous day's count
\* (the first row's is taken equal to the first count), any other column a
\* 0/1 flag alternating by row
FeatureColsSet == {<<>>, <<"lag_1">>, <<"is_weekend">>}

FrameX(y, feature_cols) ==
    [w |-> Len(feature_cols),
     rows |-> [t \in 1..Len(y) |->
                 [j \in 1..Len(feature_cols) |->
                     IF feature_cols[j] = "lag_1"
                     THEN (IF t = 1 THEN y[1] ELSE y[t - 1])
                     ELSE R(t % 2)]]]

\* exog handed to the constructor: None without feature columns
FitExog(y, feature_cols) ==
    IF feature_cols = <<>> THEN None ELSE Some(FrameX(y, feature_cols))

\* feature_cols.index("lag_1") if "lag_1" in feature_cols else None
Lag1Index(feature_cols) ==
    IF \E j \in 1..Len(feature_cols) : feature_cols[j] = "lag_1"
    THEN Some((CHOOSE j \in 1..Len(feature_cols) :
                  /\ feature_cols[j] = "lag_1"
                  /\ \A k \in 1..(j - 1) : feature_cols[k] # "lag_1") - 1)
    ELSE None

Centered(a) == [k \in 1..Len(a) |-> RSub(a[k], Mean(a))]

\* values standing for a correlation strictly inside the clip range (0.05, 0.4),
\* which is irrational in general
AcfInside == {Frac(1, 10), Frac(1, 4)}

\* start_params[1+i] = max(0.05, min(0.4, acf)), acf = np.corrcoef(endog[i+1:],
\* endog[:-(i+1)])[0, 1]; a NaN correlation (a constant slice) gives 0.4
AcfStartSet(endog, i) ==
    IF ~(Len(endog) > i + 1) THEN {Frac(1, 10)}
    ELSE LET a == Slice(endog, i + 1, Len(endog))
             b == Slice(endog, 0, Len(endog) - (i + 1))
             cab == Dot(Centered(a), Centered(b))
             va == Dot(Centered(a), Centered(a))
             vb == Dot(Centered(b), Centered(b))
             sq == RMul(cab, cab)
             vv == RMul(va, vb)
         IN  IF va = R(0) \/ vb = R(0) THEN {Frac(2, 5)}
             ELSE IF RLe(cab, R(0)) THEN {Frac(1, 20)}
             ELSE IF RLe(RMul(Frac(4, 25), vv), sq) THEN {Frac(2, 5)}
             ELSE IF RLe(sq, RMul(Frac(1, 400), vv)) THEN {Frac(1, 20)}
             ELSE AcfInside

\* start_params[n_mean_params] = max(0.05, min(0.3, var_mean_ratio - 1.0))
AlphaStart(endog) ==
    LET mean_y == Mean(endog)
        var_y == RSub(Mean([k \in 1..Len(endog) |-> RMul(endog[k], endog[k])]),
                      RMul(mean_y, mean_y))
        var_mean_ratio == RDiv(var_y, PyMax(mean_y, R(1)))
    IN  PyMax(Frac(1, 20), PyMin(Frac(3, 10), RSub(var_mean_ratio, R(1))))

\* the start_params fit computes when given none
StartParamsSet(m) ==
    LET n_exog == IF ~IsNone(m.exog) THEN The(m.exog).w ELSE 0
        ars == {ar \in [1..m.p -> AcfInside \cup {Frac(1, 20), Frac(1, 10), Frac(2, 5)}] :
                   \A i \in 1..m.p : ar[i] \in AcfStartSet(m.endog, i - 1)}
    IN  {<<RMul(Mean(m.endog), Frac(3, 10))>> \o ar \o [j \in 1..n_exog |-> Frac(1, 100)]
            \o <<AlphaStart(m.endog)>> \o [k \in 1..m.q |-> Frac(3, 100)] : ar \in ars}

\* -result.fun and -self._nloglik(params): the log-likelihood at a point, kept
\* symbolic (it is built from log-gamma terms)
LogLikAt(x) == [fn |-> "loglik", at |-> x]

InstallResult_OnlyOnSuccess(m, x, success) ==
    IF success THEN [m EXCEPT !.params = Some(x), !.loglik = Some(LogLikAt(x))] ELSE m

InstallResult_NoLoglik(m, x, success) ==
    IF success THEN [m EXCEPT !.params = Some(x), !.loglik = Some(LogLikAt(x))]
    ELSE [m EXCEPT !.params = Some(x)]

\* both branches of "if result.success": params and loglik are set from the
\* result; the branches differ only in what they print
InstallResult(m, x, success) ==
    [m EXCEPT !.params = Some(x), !.loglik = Some(LogLikAt(x))]

FallbackEstimator_TwoPoints(y, feature_cols) ==
    IF Len(y) > 1
    THEN LET y_t == Slice(y, 1, Len(y))
             y_lag == Slice(y, 0, Len(y) - 1)
             phi == RDiv(Dot(y_t, y_lag), PyMax(Dot(y_lag, y_lag), Frac(1, 1000000)))
             intercept == RSub(Mean(y_t), RMul(phi, Mean(y_lag)))
         IN  BaselineARModel(phi, intercept,
                             IF feature_cols # <<>> THEN Lag1Index(feature_cols) ELSE None)
    ELSE BaselineARModel(R(0), Mean(y), None)

\* the except branch of _fit_ingarch: closed-form AR(1), or the series mean
\* when the series has fewer than 3 points
FallbackEstimator(y, feature_cols) ==
    IF Len(y) > 2
    THEN LET y_t == Slice(y, 1, Len(y))
             y_lag == Slice(y, 0, Len(y) - 1)
             phi == RDiv(Dot(y_t, y_lag), PyMax(Dot(y_lag, y_lag), Frac(1, 1000000)))
             intercept == RSub(Mean(y_t), RMul(phi, Mean(y_lag)))
         IN  BaselineARModel(phi, intercept,
                             IF feature_cols # <<>> THEN Lag1Index(feature_cols) ELSE None)
    ELSE BaselineARModel(R(0), Mean(y), None)

\* predict on whichever estimator came back: [raised, predictions]
EstimatorPredict(est, exog, n_ahead) ==
    IF est.kind = "INGARCH" THEN NBPredict(est, exog, n_ahead)
    ELSE [raised |-> FALSE, predictions |-> BaselinePredict(est, exog)]

\* calls a caller makes on the estimator: no argument, exog of the training
\* width with 1..MaxHorizon rows, or (NB-INGARCH only) n_ahead
FitPredictArgs(est, w) ==
    {[exog |-> None, n_ahead |-> None]}
    \cup {[exog |-> Some(x), n_ahead |-> None] : x \in Matrices(ExogSet, w, 1, MaxHorizon)}
    \cup (IF est.kind = "INGARCH"
          THEN {[exog |-> None, n_ahead |-> Some(k)] : k \in 1..MaxHorizon}
          ELSE {})

InitFit ==
    /\ fit_pc = "start"
    /\ fit_in \in [y : SeqsOf(CountSet, 1, MaxObs), feature_cols : FeatureColsSet,
                   p : 0..MaxP, q : QSet]
    /\ fit_model = None
    /\ fit_start = None
    /\ opt_result = None
    /\ obj_raised = FALSE
    /\ estimator = None
    /\ fit_preds = None
    /\ PredictIdle
    /\ GateIdle
    /\ TrainIdle
    /\ BacktestIdle
    /\ LikIdle
    /\ ReplayIdle
    /\ CalIdle
    /\ RouteIdle
    /\ ServeIdle

\* _fit_ingarch builds the model; fit computes start_params
FitConstruct ==
    /\ fit_pc = "start"
    /\ LET m == IngarchModel(fit_in.y, FitExog(fit_in.y, fit_in.feature_cols),
                             fit_in.p, fit_in.q, None)
       IN  /\ fit_model' = Some(m)
           /\ \E sp \in StartParamsSet(m) : fit_start' = Some(sp)
    /\ fit_pc' = "minimize"
    /\ UNCHANGED <<fit_in, opt_result, obj_raised, estimator, fit_preds>>
    /\ UNCHANGED fitRest

\* optimize.minimize returns; result.x is any point of the parameter space
MinimizeReturns ==
    /\ fit_pc = "minimize"
    /\ LET m == The(fit_model)
           w == IF ~IsNone(m.exog) THEN The(m.exog).w ELSE 0
       IN  \E x \in ParamVectors(m.p, w, m.q), success \in BOOLEAN :
              /\ opt_result' = Some([x |-> x, success |-> success])
              /\ fit_model' = Some(InstallResult(m, x, success))
    /\ fit_pc' = "fitted"
    /\ UNCHANGED <<fit_in, fit_start, obj_raised, estimator, fit_preds>>
    /\ UNCHANGED fitRest

\* the objective raises inside optimize.minimize; the handler installs
\* start_params and evaluates the objective at them, which succeeds
MinimizeRaisesHandled ==
    /\ fit_pc = "minimize"
    /\ obj_raised' = TRUE
    /\ fit_model' = Some([The(fit_model) EXCEPT !.params = fit_start,
                                                 !.loglik = Some(LogLikAt(The(fit_start)))])
    /\ fit_pc' = "fitted"
    /\ UNCHANGED <<fit_in, fit_start, opt_result, estimator, fit_preds>>
    /\ UNCHANGED fitRest

\* the objective raises inside optimize.minimize and again when the handler
\* evaluates it at start_params: fit raises
MinimizeRaisesAgain ==
    /\ fit_pc = "minimize"
    /\ obj_raised' = TRUE
    /\ fit_model' = Some([The(fit_model) EXCEPT !.params = fit_start])
    /\ fit_pc' = "fit_raised"
    /\ UNCHANGED <<fit_in, fit_start, opt_result, estimator, fit_preds>>
    /\ UNCHANGED fitRest

\* _fit_ingarch returns the fitted model
FitIngarchReturns ==
    /\ fit_pc = "fitted"
    /\ ~IsNone(The(fit_model).params)
    /\ estimator' = fit_model
    /\ fit_pc' = "returned"
    /\ UNCHANGED <<fit_in, fit_model, fit_start, opt_result, obj_raised, fit_preds>>
    /\ UNCHANGED fitRest

\* _fit_ingarch's except branch: fit raised, or left params None
FitIngarchFallsBack ==
    /\ \/ fit_pc = "fit_raised"
       \/ fit_pc = "fitted" /\ IsNone(The(fit_model).params)
    /\ estimator' = Some(FallbackEstimator(fit_in.y, fit_in.feature_cols))
    /\ fit_pc' = "returned"
    /\ UNCHANGED <<fit_in, fit_model, fit_start, opt_result, obj_raised, fit_preds>>
    /\ UNCHANGED fitRest

\* the caller forecasts with the estimator it got
FitPredict ==
    /\ fit_pc = "returned"
    /\ \E a \in FitPredictArgs(The(estimator), Len(fit_in.feature_cols)) :
          fit_preds' = Some([args |-> a,
                             out |-> EstimatorPredict(The(estimator), a.exog, a.n_ahead)])
    /\ fit_pc' = "predicted"
    /\ UNCHANGED <<fit_in, fit_model, fit_start, opt_result, obj_raised, estimator>>
    /\ UNCHANGED fitRest

NextFit ==
    \/ FitConstruct
    \/ MinimizeReturns
    \/ MinimizeRaisesHandled
    \/ MinimizeRaisesAgain
    \/ FitIngarchReturns
    \/ FitIngarchFallsBack
    \/ FitPredict

SpecFit == InitFit /\ [][NextFit]_vars

\* the model as the constructor left it, before fit touched it
FitConstructed ==
    IngarchModel(fit_in.y, FitExog(fit_in.y, fit_in.feature_cols), fit_in.p, fit_in.q, None)

FitNParams == 1 + fit_in.p + Len(fit_in.feature_cols) + 1 + fit_in.q

FitReturned == fit_pc \in {"fitted", "returned", "predicted"}

C4_AsStated ==
    (fit_pc \in {"returned", "predicted"} /\ obj_raised)
        => The(estimator).kind = "BASELINE_AR"

\* C5, as stated: a fit whose optimizer did not declare success leaves a model
\* that differs from the one a converged fit with the same result leaves.
C5_AsStated ==
    (FitReturned /\ ~IsNone(opt_result) /\ ~The(opt_result).success) =>
        The(fit_model) # [FitConstructed EXCEPT
                             !.params = Some(The(opt_result).x),
                             !.loglik = Some(LogLikAt(The(opt_result).x))]

\* C5: when the optimizer ends without declaring success fit does not raise
\* and installs the optimizer's best point and its log-likelihood; no other
\* attribute of the model changes, so the model is the very one a converged fit
\* with the same result leaves (the non-convergence is only printed).
C5_NonConvergence ==
    (fit_pc # "start" /\ ~IsNone(opt_result) /\ ~The(opt_result).success) =>
        /\ FitReturned
        /\ The(fit_model) = [FitConstructed EXCEPT
                                !.params = Some(The(opt_result).x),
                                !.loglik = Some(LogLikAt(The(opt_result).x))]

\* a non-converged fit has returned and _fit_ingarch handed the model back
C5_Witness ==
    /\ fit_pc = "returned"
    /\ ~IsNone(opt_result)
    /\ ~The(opt_result).success
    /\ The(estimator).kind = "INGARCH"
    /\ The(The(estimator).params) = The(opt_result).x

\* C8: for a series of fewer than 3 points the fallback is built without
\* raising as phi = 0, intercept = series mean, no lag-1 column, and every
\* forecast it makes equals that mean, which is >= 0.
C8_ShortSeriesFallback ==
    (fit_pc \in {"returned", "predicted"} /\ Len(fit_in.y) < 3
        /\ The(estimator).kind = "BASELINE_AR") =>
        /\ The(estimator).phi = R(0)
        /\ The(estimator).intercept = Mean(fit_in.y)
        /\ IsNone(The(estimator).lag1_index)
        /\ RGe(Mean(fit_in.y), R(0))
        /\ fit_pc = "predicted" =>
              LET call == The(fit_preds)
              IN  /\ ~call.out.raised
                  /\ Len(call.out.predictions)
                        = (IF IsNone(call.args.exog) THEN 0
                           ELSE Len(The(call.args.exog).rows))
                  /\ \A k \in 1..Len(call.out.predictions) :
                        call.out.predictions[k] = Mean(fit_in.y)

\* the fallback built from the two-point series 0, 3 with a lag_1 column has
\* forecast the mean 3/2 at both horizon steps
C8_Witness ==
    /\ fit_pc = "predicted"
    /\ fit_in.y = <<R(0), R(3)>>
    /\ fit_in.feature_cols = <<"lag_1">>
    /\ The(estimator).kind = "BASELINE_AR"
    /\ The(fit_preds).out.predictions = <<Frac(3, 2), Frac(3, 2)>>

\* ------------------------------------------------------------ metrics, baselines
\* s[mask]: the elements of s at the positions where mask is TRUE
RECURSIVE Masked(_, _)
Masked(s, mask) ==
    IF s = <<>> THEN <<>>
    ELSE (IF Head(mask) THEN <<Head(s)>> ELSE <<>>) \o Masked(Tail(s), Tail(mask))

\* metrics.smape over finite values; np.mean of an empty array is NaN
Smape(y_true, y_pred) ==
    LET denom == [k \in 1..Len(y_true) |->
                     RDiv(RAdd(RAbs(y_true[k]), RAbs(y_pred[k])), R(2))]
        mask == [k \in 1..Len(y_true) |-> denom[k] # R(0)]
        ratio == [k \in 1..Len(y_true) |->
                     IF mask[k] THEN RDiv(RAbs(RSub(y_true[k], y_pred[k])), denom[k])
                     ELSE R(0)]
        kept == Masked(ratio, mask)
    IN  IF kept = <<>> THEN NaN ELSE RMul(Mean(kept), R(100))

\* metrics.mase and metrics.rmse, kept symbolic in their arguments
Mase(y_true, y_pred) == [fn |-> "mase", y_true |-> y_true, y_pred |-> y_pred]
Rmse(y_true, y_pred) == [fn |-> "rmse", y_true |-> y_true, y_pred |-> y_pred]
\* a metric set to a literal instead
Literal(x) == [fn |-> "literal", value |-> x]

\* baselines.moving_average: rolling(window).mean().shift(1), back-filled
MAWindow == 7

MovingAverage(visits) ==
    [t \in 1..Len(visits) |->
        IF Len(visits) > MAWindow
        THEN LET u == IF t > MAWindow THEN t ELSE MAWindow + 1
             IN  Mean(SubSeq(visits, u - MAWindow, u - 1))
        ELSE NaN]

\* baselines.naive: shift(1), the first row taken from the first count
Naive(visits) ==
    [t \in 1..Len(visits) |-> IF t = 1 THEN visits[1] ELSE visits[t - 1]]

\* -------------------------------------------------------------------- train
\* the three metrics of train on predictions preds, or the given literals when
\* no row past start_idx has a prediction and a positive count
TrainMetrics(y, preds, start_idx, d_smape, d_mase, d_rmse) ==
    LET y_true == Slice(y, start_idx, Len(y))
        y_model == Slice(preds, start_idx, Len(preds))
        mask == [k \in 1..Len(y_true) |->
                    k <= Len(y_model) /\ ~IsNaN(y_model[k]) /\ RLt(R(0), y_true[k])]
        yt == Masked(y_true, mask)
        ym == Masked(y_model, mask)
    IN  IF yt # <<>>
        THEN [smape |-> Smape(yt, ym), mase |-> Mase(yt, ym), rmse |-> Rmse(yt, ym)]
        ELSE [smape |-> d_smape, mase |-> Literal(d_mase), rmse |-> Literal(d_rmse)]

GuardFires_Never(model_smape) == FALSE

\* not np.isnan(model_smape) and model_smape > 95.0
GuardFires(model_smape) == ~IsNaN(model_smape) /\ RLt(R(95), model_smape)

\* the AR(1) baseline the guard builds on the full series
GuardFallback(y, feature_cols) ==
    LET y_t == Slice(y, 1, Len(y))
        y_lag == Slice(y, 0, Len(y) - 1)
        phi == IF Len(y) > 2
               THEN RDiv(Dot(y_t, y_lag), PyMax(Dot(y_lag, y_lag), Frac(1, 1000000)))
               ELSE R(0)
        intercept == IF Len(y) > 2 THEN RSub(Mean(y_t), RMul(phi, Mean(y_lag)))
                     ELSE IF Len(y) > 0 THEN Mean(y) ELSE R(0)
    IN  BaselineARModel(phi, intercept, Lag1Index(feature_cols))

\* ma7_smape and naive_smape over the rows that have a prediction, a moving
\* average and a positive count
TrainCompare(y, preds) ==
    LET ma7 == MovingAverage(y)
        nv == Naive(y)
        mask == [t \in 1..Len(y) |->
                    ~IsNaN(preds[t]) /\ ~IsNaN(ma7[t]) /\ RLt(R(0), y[t])]
    IN  [ma7_smape |-> Smape(Masked(y, mask), Masked(ma7, mask)),
         naive_smape |-> Smape(Masked(y, mask), Masked(nv, mask))]

\* everything _fit_ingarch can return for visits y with design matrix exog
FitIngarchOn(y, exog, feature_cols, p, q) ==
    LET m == IngarchModel(y, exog, p, q, None)
    IN  {InstallResult(m, x, success) :
            x \in ParamVectors(p, Len(feature_cols), q), success \in BOOLEAN}
        \cup {[m EXCEPT !.params = Some(sp), !.loglik = Some(LogLikAt(sp))] :
                 sp \in StartParamsSet(m)}
        \cup {FallbackEstimator(y, feature_cols)}

\* everything _fit_ingarch can return for a frame
FitIngarchOutcomes(y, feature_cols, p, q) ==
    FitIngarchOn(y, FitExog(y, feature_cols), feature_cols, p, q)

\* model_info["model_type"]
ModelTypeOf(m) == IF m.kind # "BASELINE_AR" THEN "INGARCH" ELSE "BASELINE_AR"

\* series long enough for the 7-day moving average to exist
LongSeries ==
    {[t \in 1..(MAWindow + 1) |-> IF t % 2 = 1 THEN a ELSE b] : a \in CountSet, b \in CountSet}

\* (p, q) passed to train; (2, 1) is its default
TrainOrders == {<<0, 0>>, <<1, 1>>, <<2, 1>>}

\* series of 1 to 3 points: the lengths that take each branch of the closed-form
\* baseline (mean for fewer than 3 points, AR(1) from 3 on)
ShortSeries == SeqsOf(CountSet, 1, 3)

\* the frames and orders train is run on: every short series with every order,
\* the long series without lags (exact fractions of a longer recursion on its own
\* forecasts outgrow 32-bit integers)
TrainCases ==
    (ShortSeries \X TrainOrders) \cup (LongSeries \X {<<0, 0>>})

InitTrain ==
    /\ tr_pc = "start"
    /\ \E c \in TrainCases, fc \in FeatureColsSet,
          stem \in DatasetStems, sm \in SamplingModes :
          tr_in = [y |-> c[1], feature_cols |-> fc, p |-> c[2][1], q |-> c[2][2],
                   stem |-> stem, sampling_mode |-> sm]
    /\ tr_fitted = None
    /\ tr_model = None
    /\ tr_preds = None
    /\ tr_metrics = None
    /\ tr_cmp = None
    /\ tr_gate = None
    /\ artifact = None
    /\ report = None
    /\ registry = None
    /\ PredictIdle
    /\ GateIdle
    /\ FitIdle
    /\ BacktestIdle
    /\ LikIdle
    /\ ReplayIdle
    /\ CalIdle
    /\ RouteIdle
    /\ ServeIdle

\* X_full.values
TrainX == FrameX(tr_in.y, tr_in.feature_cols)

\* start_idx = max(p, q)
TrainStartIdx == IF tr_in.q > tr_in.p THEN tr_in.q ELSE tr_in.p

\* model = _fit_ingarch(feature_frame, feature_cols, p, q, maxiter)
TrainFit ==
    /\ tr_pc = "start"
    /\ \E m \in FitIngarchOutcomes(tr_in.y, tr_in.feature_cols, tr_in.p, tr_in.q) :
          tr_model' = Some(m)
    /\ tr_pc' = "fitted"
    /\ UNCHANGED <<tr_in, tr_fitted, tr_preds, tr_metrics, tr_cmp, tr_gate,
                   artifact, report, registry>>
    /\ UNCHANGED trainRest

\* in-sample predictions and the metrics on them
TrainEvaluate ==
    /\ tr_pc = "fitted"
    /\ LET out == EstimatorPredict(The(tr_model), Some(TrainX), None)
           mt == TrainMetrics(tr_in.y, out.predictions, TrainStartIdx, R(15), R(1), R(10))
       IN  /\ ~out.raised
           /\ tr_preds' = Some(out.predictions)
           /\ tr_metrics' = Some(mt)
           /\ tr_fitted' = Some([model |-> The(tr_model), smape |-> mt.smape])
    /\ tr_pc' = "evaluated"
    /\ UNCHANGED <<tr_in, tr_model, tr_cmp, tr_gate, artifact, report, registry>>
    /\ UNCHANGED trainRest

\* the guard fires: the model is replaced and the metrics recomputed; preds
\* keeps the first model's predictions
TrainGuardReplaces ==
    /\ tr_pc = "evaluated"
    /\ GuardFires(The(tr_metrics).smape)
    /\ LET fb == GuardFallback(tr_in.y, tr_in.feature_cols)
           baseline_preds == BaselinePredict(fb, Some(TrainX))
       IN  /\ tr_model' = Some(fb)
           /\ tr_metrics' = Some(TrainMetrics(tr_in.y, baseline_preds, TrainStartIdx,
                                              R(40), Frac(6, 5), R(10)))
    /\ tr_pc' = "guarded"
    /\ UNCHANGED <<tr_in, tr_fitted, tr_preds, tr_cmp, tr_gate, artifact, report, registry>>
    /\ UNCHANGED trainRest

TrainGuardKeeps ==
    /\ tr_pc = "evaluated"
    /\ ~GuardFires(The(tr_metrics).smape)
    /\ tr_pc' = "guarded"
    /\ UNCHANGED <<tr_in, tr_fitted, tr_model, tr_preds, tr_metrics, tr_cmp, tr_gate,
                   artifact, report, registry>>
    /\ UNCHANGED trainRest

\* the gate call of train
TrainGate ==
    QualityGate(The(tr_metrics).smape, TrainCompare(tr_in.y, The(tr_preds)).ma7_smape,
                tr_in.stem, tr_in.sampling_mode)

\* baselines are compared and the gate returns its dict
TrainGateReturns ==
    /\ tr_pc = "guarded"
    /\ ~TrainGate.raised
    /\ tr_cmp' = Some(TrainCompare(tr_in.y, The(tr_preds)))
    /\ tr_gate' = Some(TrainGate.result)
    /\ tr_pc' = "gated"
    /\ UNCHANGED <<tr_in, tr_fitted, tr_model, tr_preds, tr_metrics, artifact, report, registry>>
    /\ UNCHANGED trainRest

\* baselines are compared and the gate raises RuntimeError out of train
TrainGateRaises ==
    /\ tr_pc = "guarded"
    /\ TrainGate.raised
    /\ tr_cmp' = Some(TrainCompare(tr_in.y, The(tr_preds)))
    /\ tr_pc' = "raised"
    /\ UNCHANGED <<tr_in, tr_fitted, tr_model, tr_preds, tr_metrics, tr_gate,
                   artifact, report, registry>>
    /\ UNCHANGED trainRest

TrainSave_BeforeGate ==
    /\ tr_pc = "guarded"
    /\ IsNone(artifact)
    /\ artifact' = Some([model |-> The(tr_model), feature_cols |-> tr_in.feature_cols,
                         p |-> tr_in.p, q |-> tr_in.q,
                         model_type |-> ModelTypeOf(The(tr_model))])
    /\ UNCHANGED <<tr_pc, tr_in, tr_fitted, tr_model, tr_preds, tr_metrics, tr_cmp, tr_gate,
                   report, registry>>
    /\ UNCHANGED trainRest

\* joblib.dump(model_info, artifact_path)
TrainSave ==
    /\ tr_pc = "gated"
    /\ artifact' = Some([model |-> The(tr_model), feature_cols |-> tr_in.feature_cols,
                         p |-> tr_in.p, q |-> tr_in.q,
                         model_type |-> ModelTypeOf(The(tr_model))])
    /\ tr_pc' = "saved"
    /\ UNCHANGED <<tr_in, tr_fitted, tr_model, tr_preds, tr_metrics, tr_cmp, tr_gate,
                   report, registry>>
    /\ UNCHANGED trainRest

\* training_metrics of the report
TrainingMetrics ==
    [smape |-> The(tr_metrics).smape, mase |-> The(tr_metrics).mase,
     rmse |-> The(tr_metrics).rmse, ma7_smape |-> The(tr_cmp).ma7_smape,
     naive_smape |-> The(tr_cmp).naive_smape]

\* the report is compiled and written; the frames explored have fewer than
\* max(p, q) + 10 rows, so the backtest of full mode keeps no fold
TrainReport ==
    /\ tr_pc = "saved"
    /\ Len(tr_in.y) < TrainStartIdx + 10
    /\ report' = Some([rows |-> Len(tr_in.y), feature_cols |-> tr_in.feature_cols,
                       model_spec |-> [p |-> tr_in.p, q |-> tr_in.q, type |-> "INGARCH"],
                       training_metrics |-> TrainingMetrics,
                       quality_gate |-> The(tr_gate),
                       backtest |-> [folds |-> 0, smape |-> NaN, mase |-> NaN, rmse |-> NaN]])
    /\ tr_pc' = "reported"
    /\ UNCHANGED <<tr_in, tr_fitted, tr_model, tr_preds, tr_metrics, tr_cmp, tr_gate,
                   artifact, registry>>
    /\ UNCHANGED trainRest

\* ModelRepository.register_model stores the row, and train returns
TrainRegisters ==
    /\ tr_pc = "reported"
    /\ registry' = Some([mode |-> IF tr_in.stem \in LiteStems THEN "lite" ELSE "pro",
                         model_type |-> "ingarch",
                         metrics |-> The(report).training_metrics])
    /\ tr_pc' = "done"
    /\ UNCHANGED <<tr_in, tr_fitted, tr_model, tr_preds, tr_metrics, tr_cmp, tr_gate,
                   artifact, report>>
    /\ UNCHANGED trainRest

\* registration fails (returns False or raises); train prints and returns
TrainRegisterFails ==
    /\ tr_pc = "reported"
    /\ tr_pc' = "done"
    /\ UNCHANGED <<tr_in, tr_fitted, tr_model, tr_preds, tr_metrics, tr_cmp, tr_gate,
                   artifact, report, registry>>
    /\ UNCHANGED trainRest

NextTrain ==
    \/ TrainFit
    \/ TrainEvaluate
    \/ TrainGuardReplaces
    \/ TrainGuardKeeps
    \/ TrainGateReturns
    \/ TrainGateRaises
    \/ TrainSave
    \/ TrainReport
    \/ TrainRegisters
    \/ TrainRegisterFails

SpecTrain == InitTrain /\ [][NextTrain]_vars

TrainAfterGuard == tr_pc \in {"guarded", "gated", "raised", "saved", "reported", "done"}

\* C6: in train nothing is gated or persisted before the guard has run; when
\* the sMAPE first computed exceeds 95 the model is replaced by the closed-form
\* AR(1) baseline and sMAPE, MASE and RMSE are computed anew from that
\* baseline's predictions, otherwise model and metrics stay; the gate and the
\* report use the metrics as they stand after the guard; train raises only when
\* the gate raises; and an artifact of type INGARCH holds the model that was
\* fitted, whose first sMAPE is at most 95.
C6_DegeneracyGuard ==
    /\ tr_pc \in {"start", "fitted", "evaluated"} =>
          /\ IsNone(tr_gate)
          /\ IsNone(artifact)
          /\ IsNone(report)
          /\ IsNone(registry)
    /\ (TrainAfterGuard /\ RLtF(R(95), The(tr_fitted).smape)) =>
          LET fb == GuardFallback(tr_in.y, tr_in.feature_cols)
              baseline_preds == BaselinePredict(fb, Some(TrainX))
              yt == Slice(tr_in.y, TrainStartIdx, Len(tr_in.y))
              yp == Slice(baseline_preds, TrainStartIdx, Len(baseline_preds))
              mask == [k \in 1..Len(yt) |-> RLt(R(0), yt[k])]
          IN  /\ The(tr_model) = fb
              /\ The(tr_metrics).smape = Smape(Masked(yt, mask), Masked(yp, mask))
              /\ The(tr_metrics).mase = Mase(Masked(yt, mask), Masked(yp, mask))
              /\ The(tr_metrics).rmse = Rmse(Masked(yt, mask), Masked(yp, mask))
    /\ (TrainAfterGuard /\ ~RLtF(R(95), The(tr_fitted).smape)) =>
          /\ The(tr_model) = The(tr_fitted).model
          /\ The(tr_metrics).smape = The(tr_fitted).smape
    /\ ~IsNone(tr_gate) =>
          The(tr_gate) = QualityGate(The(tr_metrics).smape, The(tr_cmp).ma7_smape,
                                     tr_in.stem, tr_in.sampling_mode).result
    /\ tr_pc = "raised" =>
          QualityGate(The(tr_metrics).smape, The(tr_cmp).ma7_smape,
                      tr_in.stem, tr_in.sampling_mode).raised
    /\ ~IsNone(report) =>
          /\ The(report).training_metrics.smape = The(tr_metrics).smape
          /\ The(report).training_metrics.mase = The(tr_metrics).mase
          /\ The(report).training_metrics.rmse = The(tr_metrics).rmse
    /\ ~IsNone(artifact) =>
          /\ The(artifact).model = The(tr_model)
          /\ The(artifact).model.kind = "INGARCH" =>
                /\ The(artifact).model = The(tr_fitted).model
                /\ RGe(R(95), The(tr_fitted).smape)

\* an NB-INGARCH fit on a long series scored above 95, was replaced, passed a
\* gate fed with a real moving-average sMAPE, and the run completed
C6_Witness ==
    /\ tr_pc = "done"
    /\ The(tr_fitted).model.kind = "INGARCH"
    /\ RLtF(R(95), The(tr_fitted).smape)
    /\ The(artifact).model.kind = "BASELINE_AR"
    /\ RLtF(The(report).training_metrics.smape, R(95))
    /\ ~IsNaN(The(tr_cmp).ma7_smape)
    /\ The(tr_gate).passed

\* C7, as stated: whatever train has persisted and reported names the kind of
\* the persisted model: the artifact's model_type, the report's model_spec
\* type and the registry row's model_type say INGARCH only when the persisted
\* model is the NB-INGARCH one.
C7_AsStated ==
    /\ ~IsNone(artifact) =>
          (The(artifact).model_type = "INGARCH" <=> The(artifact).model.kind = "INGARCH")
    /\ ~IsNone(report) =>
          (The(report).model_spec.type = "INGARCH" => The(artifact).model.kind = "INGARCH")
    /\ ~IsNone(registry) =>
          (The(registry).model_type = "ingarch" => The(artifact).model.kind = "INGARCH")

\* C11: when the gate raises, train ends there: the run is in strict (full) mode
\* on a lite dataset, no gate dict was returned, and no artifact, no report and
\* no registry row has been or will be written by that run; and whatever is
\* written is written only after the gate has returned.
C11_GateFailureFatal ==
    /\ tr_pc = "raised" =>
          /\ tr_in.sampling_mode \notin RelaxedModes
          /\ tr_in.stem \in LiteStems
          /\ IsNone(tr_gate)
          /\ IsNone(artifact)
          /\ IsNone(report)
          /\ IsNone(registry)
          /\ ~ENABLED NextTrain
    /\ (~IsNone(artifact) \/ ~IsNone(report) \/ ~IsNone(registry)) => ~IsNone(tr_gate)

\* a full-mode run on a lite dataset whose lift against a real moving-average
\* sMAPE fell short, so the gate raised
C11_Witness ==
    /\ tr_pc = "raised"
    /\ tr_in.sampling_mode = "full"
    /\ ~IsNaN(The(tr_cmp).ma7_smape)
    /\ RLtF(GateLiftPct(The(tr_metrics).smape, The(tr_cmp).ma7_smape), R(8))

\* ------------------------------------------------- _rolling_origin_backtest
\* most monthly periods in a frame
MaxPeriods == 3
\* rows a period has
BtSizeSet == {1, 10}
\* (p, q) of a backtest; without lags, so that a ten-step forecast stays exact
BtOrders == {<<0, 0>>, <<0, 1>>}
BtFeatureCols == {<<>>, <<"lag_1">>}

RECURSIVE SumInts(_)
SumInts(s) == IF s = <<>> THEN 0 ELSE Head(s) + SumInts(Tail(s))

Reverse(s) == [t \in 1..Len(s) |-> s[Len(s) + 1 - t]]

\* a frame in date order: period k has sz[k] rows; visits repeat a, b
BtFrameAsc(sz, a, b, feature_cols) ==
    LET n == SumInts(sz)
        y == [t \in 1..n |-> IF t % 2 = 1 THEN a ELSE b]
        X == FrameX(y, feature_cols)
    IN  [t \in 1..n |->
            [period |-> CHOOSE k \in 1..Len(sz) :
                            SumInts(SubSeq(sz, 1, k - 1)) < t /\ t <= SumInts(SubSeq(sz, 1, k)),
             visits |-> y[t],
             x |-> X.rows[t]]]

\* frames in date order and in reverse date order
BtFrames(feature_cols) ==
    UNION {{BtFrameAsc(sz, a, R(3), feature_cols), Reverse(BtFrameAsc(sz, a, R(3), feature_cols))} :
              sz \in SeqsOf(BtSizeSet, 1, MaxPeriods), a \in CountSet}

\* sorted(periods.unique())
RECURSIVE SortedSeq(_)
SortedSeq(S) ==
    IF S = {} THEN <<>>
    ELSE LET m == CHOOSE x \in S : \A z \in S : x <= z
         IN  <<m>> \o SortedSeq(S \ {m})

UniquePeriods(frame) == SortedSeq({frame[t].period : t \in 1..Len(frame)})

TrainMask_Inclusive(frame, period) == [t \in 1..Len(frame) |-> frame[t].period <= period]

\* periods < period
TrainMask(frame, period) == [t \in 1..Len(frame) |-> frame[t].period < period]

\* periods == period
TestMask(frame, period) == [t \in 1..Len(frame) |-> frame[t].period = period]

\* mask.sum()
CountTrue(mask) == Cardinality({t \in 1..Len(mask) : mask[t]})

FoldSkipped_AtMost(frame, period, p, q) ==
    \/ CountTrue(TrainMask(frame, period)) <= (IF q > p THEN q ELSE p) + 10
    \/ CountTrue(TestMask(frame, period)) = 0

\* train_mask.sum() < max(p, q) + 10 or test_mask.sum() == 0
FoldSkipped(frame, period, p, q) ==
    \/ CountTrue(TrainMask(frame, period)) < (IF q > p THEN q ELSE p) + 10
    \/ CountTrue(TestMask(frame, period)) = 0

\* the design matrix of a sub-frame
BtDesign(rows, feature_cols) ==
    [w |-> Len(feature_cols), rows |-> [t \in 1..Len(rows) |-> rows[t].x]]

BtVisits(rows) == [t \in 1..Len(rows) |-> rows[t].visits]

\* the period the loop takes next
BtPeriod == UniquePeriods(bt_in.frame)[bt_idx + 2]

InitBacktest ==
    /\ bt_pc = "loop"
    /\ \E fc \in BtFeatureCols, o \in BtOrders :
          \E fr \in BtFrames(fc) :
             bt_in = [frame |-> fr, feature_cols |-> fc, p |-> o[1], q |-> o[2]]
    /\ bt_idx = 0
    /\ fold_rows = <<>>
    /\ bt_folds = <<>>
    /\ PredictIdle
    /\ GateIdle
    /\ FitIdle
    /\ TrainIdle
    /\ LikIdle
    /\ ReplayIdle
    /\ CalIdle
    /\ RouteIdle
    /\ ServeIdle

\* a period without enough history, or without rows, is passed over
BacktestFoldSkip ==
    /\ bt_pc = "loop"
    /\ bt_idx + 1 < Len(UniquePeriods(bt_in.frame))
    /\ FoldSkipped(bt_in.frame, BtPeriod, bt_in.p, bt_in.q)
    /\ bt_idx' = bt_idx + 1
    /\ UNCHANGED <<bt_pc, bt_in, fold_rows, bt_folds>>
    /\ UNCHANGED backtestRest

\* a fold is fitted on the rows of train_mask and scored on those of test_mask
BacktestFoldEvaluate ==
    /\ bt_pc = "loop"
    /\ bt_idx + 1 < Len(UniquePeriods(bt_in.frame))
    /\ ~FoldSkipped(bt_in.frame, BtPeriod, bt_in.p, bt_in.q)
    /\ LET frame == bt_in.frame
           train_mask == TrainMask(frame, BtPeriod)
           test_mask == TestMask(frame, BtPeriod)
           train_frame == Masked(frame, train_mask)
           test_frame == Masked(frame, test_mask)
           y_test == BtVisits(test_frame)
           X_test == BtDesign(test_frame, bt_in.feature_cols)
           exog == IF bt_in.feature_cols = <<>> THEN None
                   ELSE Some(BtDesign(train_frame, bt_in.feature_cols))
       IN  \E m \in FitIngarchOn(BtVisits(train_frame), exog, bt_in.feature_cols,
                                 bt_in.p, bt_in.q) :
              LET out == EstimatorPredict(m, Some(X_test), None)
                  preds == out.predictions
                  min_len == IF Len(preds) < Len(y_test) THEN Len(preds) ELSE Len(y_test)
                  yt == Slice(y_test, 0, min_len)
                  pt == Slice(preds, 0, min_len)
                  ma7 == Slice(Masked(MovingAverage(BtVisits(frame)), test_mask), 0, min_len)
                  nv == Slice(Masked(Naive(BtVisits(frame)), test_mask), 0, min_len)
              IN  /\ ~out.raised
                  /\ fold_rows' = Append(fold_rows,
                        [fold |-> bt_idx + 1, period |-> BtPeriod, n_samples |-> min_len,
                         model_smape |-> Smape(yt, pt), model_mase |-> Mase(yt, pt),
                         model_rmse |-> Rmse(yt, pt), ma7_smape |-> Smape(yt, ma7),
                         naive_smape |-> Smape(yt, nv)])
                  /\ bt_folds' = Append(bt_folds,
                        [period |-> BtPeriod,
                         train_rows |-> {t \in 1..Len(frame) : train_mask[t]},
                         test_rows |-> {t \in 1..Len(frame) : test_mask[t]},
                         train_visits |-> BtVisits(train_frame),
                         y_test |-> y_test])
    /\ bt_idx' = bt_idx + 1
    /\ UNCHANGED <<bt_pc, bt_in>>
    /\ UNCHANGED backtestRest

\* the loop is over: backtest_df is built from fold_rows
BacktestReturn ==
    /\ bt_pc = "loop"
    /\ ~(bt_idx + 1 < Len(UniquePeriods(bt_in.frame)))
    /\ bt_pc' = "returned"
    /\ UNCHANGED <<bt_in, bt_idx, fold_rows, bt_folds>>
    /\ UNCHANGED backtestRest

NextBacktest ==
    \/ BacktestFoldSkip
    \/ BacktestFoldEvaluate
    \/ BacktestReturn

SpecBacktest == InitBacktest /\ [][NextBacktest]_vars

BtRowsBefore(P) == {t \in 1..Len(bt_in.frame) : bt_in.frame[t].period < P}
BtRowsOf(P) == {t \in 1..Len(bt_in.frame) : bt_in.frame[t].period = P}
BtVisitsAt(rows) ==
    [j \in 1..Cardinality(rows) |-> bt_in.frame[SortedSeq(rows)[j]].visits]

\* C12: every evaluated fold was fitted on the visits of exactly the rows whose
\* period is strictly earlier than the fold's period and scored on exactly the
\* rows of the fold's period (one sample per such row), and no row is in both.
C12_FoldSplit ==
    /\ Len(bt_folds) = Len(fold_rows)
    /\ \A i \in 1..Len(bt_folds) :
          LET f == bt_folds[i]
          IN  /\ fold_rows[i].period = f.period
              /\ f.train_rows = BtRowsBefore(f.period)
              /\ f.test_rows = BtRowsOf(f.period)
              /\ f.train_rows \cap f.test_rows = {}
              /\ f.train_visits = BtVisitsAt(BtRowsBefore(f.period))
              /\ f.y_test = BtVisitsAt(BtRowsOf(f.period))
              /\ fold_rows[i].n_samples = Cardinality(BtRowsOf(f.period))

\* two folds evaluated on a frame stored in reverse date order
C12_Witness ==
    /\ Len(bt_folds) = 2
    /\ bt_in.frame[1].period > bt_in.frame[Len(bt_in.frame)].period
    /\ Cardinality(bt_folds[2].train_rows) > Cardinality(bt_folds[1].train_rows)

BtPeriodSet == {bt_in.frame[t].period : t \in 1..Len(bt_in.frame)}

\* C13: when the backtest returns, a period P of the frame has exactly one row
\* in the result if P is not the first period, at least max(p, q) + 10 rows lie
\* before P and P has a row; otherwise it has none; the result holds nothing
\* else, and the call does not raise.
C13_FoldRows ==
    /\ bt_pc \in {"off", "loop", "returned"}
    /\ bt_pc = "returned" =>
          /\ \A i \in 1..Len(fold_rows) : fold_rows[i].period \in BtPeriodSet
          /\ \A P \in BtPeriodSet :
                Cardinality({i \in 1..Len(fold_rows) : fold_rows[i].period = P})
                   = (IF /\ \E Q \in BtPeriodSet : Q < P
                         /\ Cardinality(BtRowsBefore(P))
                               >= (IF bt_in.q > bt_in.p THEN bt_in.q ELSE bt_in.p) + 10
                         /\ Cardinality(BtRowsOf(P)) >= 1
                      THEN 1 ELSE 0)

\* with q = 1 the second period has 10 rows before it and is skipped, the
\* third has 11 and is evaluated
C13_Witness ==
    /\ bt_pc = "returned"
    /\ bt_in.q = 1
    /\ Cardinality(BtPeriodSet) = 3
    /\ Cardinality(BtRowsBefore(2)) = 10
    /\ Len(fold_rows) = 1
    /\ fold_rows[1].period = 3

\* ------------------------------------------------- NBINGARCHModel._nloglik
MeanFloor_None(mu) == mu

\* return max(mu, 0.01)
MeanFloor(mu) == PyMax(mu, Frac(1, 100))

DispersionFloor_None(phi) == phi

\* return max(phi, 0.001)
DispersionFloor(phi) == PyMax(phi, Frac(1, 1000))

LikNExog(m) == IF ~IsNone(m.exog) THEN The(m.exog).w ELSE 0

\* the sum over i of beta_ar[i] * endog[t-i-1] for the lags that exist
RECURSIVE LikArSum(_, _, _, _)
LikArSum(m, beta_ar, t, i) ==
    IF i >= m.p THEN R(0)
    ELSE RAdd(IF t - i - 1 >= 0 THEN RMul(beta_ar[i + 1], m.endog[t - i - 1 + 1]) ELSE R(0),
              LikArSum(m, beta_ar, t, i + 1))

\* _compute_conditional_mean(params, t), t counted from 0
ComputeConditionalMean(m, params, t) ==
    LET n_mean_params == 1 + m.p + LikNExog(m)
        beta_ar == IF m.p > 0 THEN Slice(params, 1, 1 + m.p) ELSE <<>>
        gamma_exog == IF LikNExog(m) > 0 THEN Slice(params, 1 + m.p, n_mean_params) ELSE <<>>
        ar == RAdd(params[1], LikArSum(m, beta_ar, t, 0))
    IN  MeanFloor(IF ~IsNone(m.exog) /\ Len(gamma_exog) > 0
                  THEN RAdd(ar, Dot(The(m.exog).rows[t + 1], gamma_exog))
                  ELSE ar)

\* the ARCH terms alpha_arch[i] * residuals[t-i-1]^2 / mu_series[t-i-1]
RECURSIVE LikArchSum(_, _, _, _, _, _)
LikArchSum(alpha_arch, n, t, i, mus, res) ==
    IF i >= n THEN R(0)
    ELSE RAdd(IF t - i - 1 >= 0 /\ RLt(R(0), mus[t - i - 1 + 1])
              THEN RMul(alpha_arch[i + 1],
                        RDiv(RMul(res[t - i - 1 + 1], res[t - i - 1 + 1]), mus[t - i - 1 + 1]))
              ELSE R(0),
              LikArchSum(alpha_arch, n, t, i + 1, mus, res))

\* _compute_conditional_dispersion(params, t, mu_series, residuals)
ComputeConditionalDispersion(m, params, t, mus, res) ==
    LET n_mean_params == 1 + m.p + LikNExog(m)
        alpha0 == params[n_mean_params + 1]
        alpha_arch == IF m.q > 0 THEN Slice(params, n_mean_params + 1, n_mean_params + 1 + m.q)
                      ELSE <<>>
        n == IF m.q < Len(alpha_arch) THEN m.q ELSE Len(alpha_arch)
    IN  DispersionFloor(RAdd(alpha0, LikArchSum(alpha_arch, n, t, 0, mus, res)))

\* burn_in = max(self.p, self.q)
BurnIn(m) == IF m.q > m.p THEN m.q ELSE m.p

\* vectors a simplex search may try: any sign in every position
TrialVectors(p, n_exog, q) ==
    {<<b0>> \o ar \o ga \o <<a0>> \o al :
        b0 \in InterceptSet, ar \in [1..p -> CoefSet], ga \in [1..n_exog -> CoefSet],
        a0 \in {R(-1), Frac(1, 10)}, al \in [1..q -> {R(-1), Frac(3, 100)}]}

LikFeatureCols == {<<>>, <<"lag_1">>}

InitLik ==
    /\ lk_pc = "pass"
    /\ \E y \in SeqsOf(CountSet, 1, MaxObs), fc \in LikFeatureCols, p \in 0..MaxP, q \in QSet :
          \E x \in TrialVectors(p, Len(fc), q) :
             lk_in = [model |-> IngarchModel(y, FitExog(y, fc), p, q, None), params |-> x]
    /\ lk_t = 0
    /\ mu_series = [t \in 1..Len(lk_in.model.endog) |-> R(0)]
    /\ phi_series = [t \in 1..Len(lk_in.model.endog) |-> Frac(1, 10)]
    /\ residuals = [t \in 1..Len(lk_in.model.endog) |-> R(0)]
    /\ lk_calls = <<>>
    /\ PredictIdle
    /\ GateIdle
    /\ FitIdle
    /\ TrainIdle
    /\ BacktestIdle
    /\ ReplayIdle
    /\ CalIdle
    /\ RouteIdle
    /\ ServeIdle

\* one iteration of the forward pass
ForwardStep ==
    /\ lk_pc = "pass"
    /\ lk_t < lk_in.model.n_obs
    /\ LET m == lk_in.model
           mu == ComputeConditionalMean(m, lk_in.params, lk_t)
           mus == [mu_series EXCEPT ![lk_t + 1] = mu]
           res == [residuals EXCEPT ![lk_t + 1] = RSub(m.endog[lk_t + 1], mu)]
       IN  /\ mu_series' = mus
           /\ residuals' = res
           /\ phi_series' = IF lk_t >= BurnIn(m)
                            THEN [phi_series EXCEPT ![lk_t + 1] =
                                     ComputeConditionalDispersion(m, lk_in.params, lk_t, mus, res)]
                            ELSE phi_series
    /\ lk_t' = lk_t + 1
    /\ UNCHANGED <<lk_pc, lk_in, lk_calls>>
    /\ UNCHANGED likRest

\* the likelihood is summed over the observations after burn-in
SumLoglik ==
    /\ lk_pc = "pass"
    /\ lk_t = lk_in.model.n_obs
    /\ lk_calls' = [k \in 1..(IF lk_in.model.n_obs > BurnIn(lk_in.model)
                              THEN lk_in.model.n_obs - BurnIn(lk_in.model) ELSE 0) |->
                       [y |-> lk_in.model.endog[BurnIn(lk_in.model) + k],
                        mu |-> mu_series[BurnIn(lk_in.model) + k],
                        phi |-> phi_series[BurnIn(lk_in.model) + k]]]
    /\ lk_pc' = "returned"
    /\ UNCHANGED <<lk_in, lk_t, mu_series, phi_series, residuals>>
    /\ UNCHANGED likRest

NextLik ==
    \/ ForwardStep
    \/ SumLoglik

SpecLik == InitLik /\ [][NextLik]_vars

\* C14: in a forward pass every conditional mean computed so far is at least
\* 0.01 and every conditional dispersion at least 0.001, whatever the trial
\* vector, and every (mu, phi) handed to the likelihood is strictly positive.
C14_LikelihoodFloors ==
    /\ \A t \in 1..lk_t :
          /\ RGe(mu_series[t], Frac(1, 100))
          /\ RGe(phi_series[t], Frac(1, 1000))
    /\ \A k \in 1..Len(lk_calls) :
          /\ RGe(lk_calls[k].mu, Frac(1, 100))
          /\ RGe(lk_calls[k].phi, Frac(1, 1000))
          /\ RLtF(R(0), lk_calls[k].mu)
          /\ RLtF(R(0), lk_calls[k].phi)

\* a pass with a negative ARCH coefficient in which both the mean and the
\* dispersion handed to the likelihood sit on their floors
C14_Witness ==
    /\ lk_pc = "returned"
    /\ lk_in.model.q = 1
    /\ RLt(lk_in.params[Len(lk_in.params)], R(0))
    /\ \E k \in 1..Len(lk_calls) :
          /\ lk_calls[k].phi = Frac(1, 1000)
          /\ lk_calls[k].mu = Frac(1, 100)

\* ------------------------------------------------ repeated predict calls
\* predict calls made on one model object
MaxCalls == 3

\* the fitted models called repeatedly: one lag, the series 0, 3
ReplayModels ==
    {m \in FittedModels : m.endog = <<R(0), R(3)>> /\ m.p = 1 /\ m.q = 1}
    \cup {m \in BaselineModels : m.phi = Frac(1, 2)}

InitReplay ==
    /\ model \in ReplayModels
    /\ pr_pc = "idle"
    /\ pr_exog = None
    /\ pr_n_steps = 0
    /\ pr_h = 0
    /\ predictions = <<>>
    /\ recent_obs = <<>>
    /\ rp_model0 = model
    /\ rp_log = {}
    /\ rp_calls = 0
    /\ GateIdle
    /\ FitIdle
    /\ TrainIdle
    /\ BacktestIdle
    /\ LikIdle
    /\ CalIdle
    /\ RouteIdle
    /\ ServeIdle

\* the caller takes the outcome of a call and is ready to call again; the
\* locals of the finished call are gone
PredictAgain ==
    /\ pr_pc \in {"returned", "raised"}
    /\ rp_calls + 1 < MaxCalls
    /\ rp_log' = rp_log \cup {[exog |-> pr_exog, n_steps |-> pr_n_steps,
                               raised |-> pr_pc = "raised", predictions |-> predictions]}
    /\ rp_calls' = rp_calls + 1
    /\ pr_pc' = "idle"
    /\ pr_exog' = None
    /\ pr_n_steps' = 0
    /\ pr_h' = 0
    /\ predictions' = <<>>
    /\ recent_obs' = <<>>
    /\ UNCHANGED <<model, rp_model0>>
    /\ UNCHANGED <<gateVars, fitVars, trainVars, backtestVars, likVars, calVars,
                   routeVars, serveVars>>

NextReplay ==
    \/ PredictStart
    \/ PredictStep
    \/ PredictStepRaises
    \/ PredictReturn
    \/ BaselinePredictCall
    \/ PredictAgain

SpecReplay == InitReplay /\ [][NextReplay]_vars

\* C15: through any sequence of predict calls the model object (parameters,
\* training series, training exog, orders) stays as it was before the first
\* call, and a call that ends has the same outcome as every earlier call with
\* the same exog and horizon, whatever calls came in between.
C15_PredictPure ==
    /\ model = rp_model0
    /\ pr_pc \in {"returned", "raised"} =>
          \A e \in rp_log :
             (e.exog = pr_exog /\ e.n_steps = pr_n_steps) =>
                /\ e.raised = (pr_pc = "raised")
                /\ e.predictions = predictions

\* the third call on an NB-INGARCH model repeats the first, after a different
\* call in between, and returns a two-step path
C15_Witness ==
    /\ pr_pc = "returned"
    /\ rp_calls = 2
    /\ model.kind = "INGARCH"
    /\ Len(predictions) = 2
    /\ predictions[1] # predictions[2]
    /\ Cardinality(rp_log) = 2
    /\ \E e \in rp_log : e.exog = pr_exog /\ e.n_steps = pr_n_steps

\* ------------------------------------------------ calibrate_intervals
\* residuals of a small fold, and how many of them it may hold
CalResidualSet == {-1, 0, 2}
MaxFoldLen == 2
\* pairwise distinct pooled residuals: 1 .. n for n up to MaxRamp
MaxRamp == 12
\* pooled sizes with a step of 2
CalBigSizes == {101, 150}
\* sizes of the blocks of equal residuals
CalBlockSizes == {1, 60, 100}

\* (lower, upper): the defaults, a narrow seed, a seed near the top, and a
\* pair the validation rejects
CalSeeds ==
    {<<Frac(1, 10), Frac(9, 10)>>, <<Frac(2, 5), Frac(3, 5)>>,
     <<Frac(49, 50), Frac(99, 100)>>, <<Frac(9, 10), Frac(1, 10)>>}
DefaultSeed == <<Frac(1, 10), Frac(9, 10)>>
\* coverage_band: the default and a lower one
CalBands == {<<Frac(4, 5), Frac(19, 20)>>, <<Frac(1, 2), Frac(3, 5)>>}
DefaultBand == <<Frac(4, 5), Frac(19, 20)>>

Ramp(n) == [i \in 1..n |-> i]
Repeat(v, n) == [i \in 1..n |-> v]

\* residuals_by_fold as the sequence of its arrays, in the mapping's order;
\* the fold identifier is the position
CalSmallFolds == SeqsOf(SeqsOf(CalResidualSet, 0, MaxFoldLen), 0, 2)
\* distinct residuals in two folds, the second in descending order
CalRampFolds ==
    {<<SubSeq(Ramp(n), 1, n \div 3), Reverse(SubSeq(Ramp(n), (n \div 3) + 1, n))>> :
        n \in (1..MaxRamp) \cup CalBigSizes}
CalBlockFolds ==
    {<<Repeat(0, a), Repeat(1, b)>> : a \in CalBlockSizes, b \in CalBlockSizes}
CalFolds == CalSmallFolds \cup CalRampFolds \cup CalBlockFolds

\* posterior_samples after _to_2d_array: rows of draws, one column per
\* forecast point
CalSamples == {<<<<1, 4>>, <<3, 0>>>>, <<<<2>>, <<0>>, <<7>>>>}

\* np.floor, np.ceil of a finite rational; np.clip of an integer
Floor(r) == r[1] \div r[2]
Ceil(r) == -((-r[1]) \div r[2])
Clip(x, lo, hi) == IF x < lo THEN lo ELSE IF x > hi THEN hi ELSE x
IntMax(a, b) == IF b > a THEN b ELSE a
IntMin(a, b) == IF b < a THEN b ELSE a

\* np.concatenate of the non-empty arrays, in the mapping's order
RECURSIVE AllResiduals(_)
AllResiduals(folds) ==
    IF folds = <<>> THEN <<>>
    ELSE Head(folds) \o AllResiduals(Tail(folds))

ResidualsSorted(folds) == SortSeq(AllResiduals(folds), LAMBDA a, b : a < b)
NResiduals(folds) == Len(AllResiduals(folds))

CoverageRatio_Strict(res, lo, hi) ==
    IF Len(res) = 0 THEN NaN
    ELSE Frac(Cardinality({i \in 1..Len(res) : res[i] > lo /\ res[i] < hi}), Len(res))

\* _coverage_ratio
CoverageRatio(res, lo, hi) ==
    IF Len(res) = 0 THEN NaN
    ELSE Frac(Cardinality({i \in 1..Len(res) : res[i] >= lo /\ res[i] <= hi}), Len(res))

\* the seed indices <<lower_idx, upper_idx>> (0-based)
SeedIdx(n, lower, upper) ==
    LET l0 == Clip(Floor(RMul(lower, R(n - 1))), 0, n - 1)
        u0 == Clip(Ceil(RMul(upper, R(n - 1))), 0, n - 1)
    IN  IF l0 >= u0 THEN <<IntMax(l0 - 1, 0), IntMin(u0 + 1, n - 1)>>
        ELSE <<l0, u0>>

Step_One(n) == 1

\* step = max(int(np.ceil(0.01 * n_residuals)), 1)
Step(n) == IntMax(Ceil(RMul(Frac(1, 100), R(n))), 1)

\* the validation of the arguments
CalArgsValid(in) ==
    /\ RLt(R(0), in.lower) /\ RLt(in.lower, in.upper) /\ RLt(in.upper, R(1))
    /\ RLt(R(0), in.band[1]) /\ RLt(in.band[1], in.band[2]) /\ RLe(in.band[2], R(1))
    /\ in.folds # <<>>
    /\ NResiduals(in.folds) > 0

InitCal ==
    /\ cal_pc = "start"
    /\ \E f \in CalFolds, sd \in CalSeeds, b \in CalBands, sm \in CalSamples :
          cal_in = [samples |-> sm, folds |-> f, lower |-> sd[1], upper |-> sd[2],
                    band |-> b]
    /\ lower_idx = 0
    /\ upper_idx = 0
    /\ alpha_low = 0
    /\ alpha_high = 0
    /\ coverage = NaN
    /\ cal_fold = 0
    /\ fold_coverages = <<>>
    /\ cal_branch = "none"
    /\ cal_iters = 0
    /\ cal_prev = NaN
    /\ p10 = <<>>
    /\ p50 = <<>>
    /\ p90 = <<>>
    /\ cal_log = {}
    /\ cal_calls = 0
    /\ PredictIdle
    /\ GateIdle
    /\ FitIdle
    /\ TrainIdle
    /\ BacktestIdle
    /\ LikIdle
    /\ ReplayIdle
    /\ RouteIdle
    /\ ServeIdle

\* a rejected argument, an empty mapping or only empty arrays: ValueError
CalRaises ==
    /\ cal_pc = "start"
    /\ ~CalArgsValid(cal_in)
    /\ cal_pc' = "raised"
    /\ UNCHANGED <<cal_in, lower_idx, upper_idx, alpha_low, alpha_high, coverage,
                   cal_fold, fold_coverages, cal_branch, cal_iters, cal_prev>>
    /\ UNCHANGED <<p10, p50, p90, cal_log, cal_calls>>
    /\ UNCHANGED calRest

CalSeed_WarmStart ==
    /\ cal_pc = "start"
    /\ CalArgsValid(cal_in)
    /\ LET all == AllResiduals(cal_in.folds)
           srt == ResidualsSorted(cal_in.folds)
           sd  == SeedIdx(Len(srt), cal_in.lower, cal_in.upper)
           idx == IF cal_calls > 0
                  THEN <<IntMin(lower_idx, Len(srt) - 1), IntMin(upper_idx, Len(srt) - 1)>>
                  ELSE sd
           cov == CoverageRatio(all, srt[idx[1] + 1], srt[idx[2] + 1])
           br  == IF RLt(cov, cal_in.band[1]) THEN "widen"
                  ELSE IF RLt(cal_in.band[2], cov) THEN "narrow" ELSE "none"
       IN  /\ lower_idx' = idx[1]
           /\ upper_idx' = idx[2]
           /\ alpha_low' = srt[idx[1] + 1]
           /\ alpha_high' = srt[idx[2] + 1]
           /\ coverage' = cov
           /\ cal_branch' = br
           /\ cal_pc' = IF br = "none" THEN "folds" ELSE br
    /\ UNCHANGED <<cal_in, cal_fold, fold_coverages, cal_iters, cal_prev>>
    /\ UNCHANGED <<p10, p50, p90, cal_log, cal_calls>>
    /\ UNCHANGED calRest

\* the seed interval, its coverage and the branch taken
CalSeed ==
    /\ cal_pc = "start"
    /\ CalArgsValid(cal_in)
    /\ LET all == AllResiduals(cal_in.folds)
           srt == ResidualsSorted(cal_in.folds)
           idx == SeedIdx(Len(srt), cal_in.lower, cal_in.upper)
           cov == CoverageRatio(all, srt[idx[1] + 1], srt[idx[2] + 1])
           br  == IF RLt(cov, cal_in.band[1]) THEN "widen"
                  ELSE IF RLt(cal_in.band[2], cov) THEN "narrow" ELSE "none"
       IN  /\ lower_idx' = idx[1]
           /\ upper_idx' = idx[2]
           /\ alpha_low' = srt[idx[1] + 1]
           /\ alpha_high' = srt[idx[2] + 1]
           /\ coverage' = cov
           /\ cal_branch' = br
           /\ cal_pc' = IF br = "none" THEN "folds" ELSE br
    /\ UNCHANGED <<cal_in, cal_fold, fold_coverages, cal_iters, cal_prev>>
    /\ UNCHANGED <<p10, p50, p90, cal_log, cal_calls>>
    /\ UNCHANGED calRest

WidenCondition ==
    /\ RLt(coverage, cal_in.band[1])
    /\ (lower_idx > 0 \/ upper_idx < NResiduals(cal_in.folds) - 1)

WidenLower_Inward(li, step, n) == IF li > 0 THEN IntMin(li + step, n - 1) ELSE li

\* lines 90-91 and 92-93: the new indices of a widening iteration
WidenLower(li, step, n) == IF li > 0 THEN IntMax(li - step, 0) ELSE li
WidenUpper(ui, step, n) == IF ui < n - 1 THEN IntMin(ui + step, n - 1) ELSE ui

\* one iteration of the widening loop
CalWiden ==
    /\ cal_pc = "widen"
    /\ WidenCondition
    /\ LET all == AllResiduals(cal_in.folds)
           srt == ResidualsSorted(cal_in.folds)
           n   == Len(srt)
           li  == WidenLower(lower_idx, Step(n), n)
           ui  == WidenUpper(upper_idx, Step(n), n)
       IN  /\ lower_idx' = li
           /\ upper_idx' = ui
           /\ alpha_low' = srt[li + 1]
           /\ alpha_high' = srt[ui + 1]
           /\ coverage' = CoverageRatio(all, srt[li + 1], srt[ui + 1])
    /\ cal_prev' = coverage
    /\ cal_iters' = cal_iters + 1
    /\ UNCHANGED <<cal_pc, cal_in, cal_fold, fold_coverages, cal_branch>>
    /\ UNCHANGED <<p10, p50, p90, cal_log, cal_calls>>
    /\ UNCHANGED calRest

\* the widening loop ends
CalWidenExit ==
    /\ cal_pc = "widen"
    /\ ~WidenCondition
    /\ cal_pc' = "folds"
    /\ UNCHANGED <<cal_in, lower_idx, upper_idx, alpha_low, alpha_high, coverage,
                   cal_fold, fold_coverages, cal_branch, cal_iters, cal_prev>>
    /\ UNCHANGED <<p10, p50, p90, cal_log, cal_calls>>
    /\ UNCHANGED calRest

NarrowCondition ==
    /\ RLt(cal_in.band[2], coverage)
    /\ lower_idx < upper_idx

NarrowUpper_Unclamped(li, ui, step) == IF ui > li THEN ui - step ELSE ui

\* lines 99-100 and 101-102: the new indices of a narrowing iteration; the
\* upper edge is moved against the lower edge already moved
NarrowLower(li, ui, step) == IF li < ui THEN IntMin(li + step, ui) ELSE li
NarrowUpper(li, ui, step) == IF ui > li THEN IntMax(ui - step, li) ELSE ui

\* one iteration of the narrowing loop
CalNarrow ==
    /\ cal_pc = "narrow"
    /\ NarrowCondition
    /\ LET all == AllResiduals(cal_in.folds)
           srt == ResidualsSorted(cal_in.folds)
           n   == Len(srt)
           li  == NarrowLower(lower_idx, upper_idx, Step(n))
           ui  == NarrowUpper(li, upper_idx, Step(n))
       IN  /\ lower_idx' = li
           /\ upper_idx' = ui
           /\ alpha_low' = srt[li + 1]
           /\ alpha_high' = srt[ui + 1]
           /\ coverage' = CoverageRatio(all, srt[li + 1], srt[ui + 1])
    /\ cal_prev' = coverage
    /\ cal_iters' = cal_iters + 1
    /\ UNCHANGED <<cal_pc, cal_in, cal_fold, fold_coverages, cal_branch>>
    /\ UNCHANGED <<p10, p50, p90, cal_log, cal_calls>>
    /\ UNCHANGED calRest

\* the narrowing loop ends
CalNarrowExit ==
    /\ cal_pc = "narrow"
    /\ ~NarrowCondition
    /\ cal_pc' = "folds"
    /\ UNCHANGED <<cal_in, lower_idx, upper_idx, alpha_low, alpha_high, coverage,
                   cal_fold, fold_coverages, cal_branch, cal_iters, cal_prev>>
    /\ UNCHANGED <<p10, p50, p90, cal_log, cal_calls>>
    /\ UNCHANGED calRest

\* FoldCoverage(fold_id, coverage, count)
FoldCoverage(id, cov, cnt) == [fold_id |-> id, coverage |-> cov, count |-> cnt]

CalFold_SkipsEmpty ==
    /\ cal_pc = "folds"
    /\ cal_fold < Len(cal_in.folds)
    /\ LET fold_residuals == cal_in.folds[cal_fold + 1]
       IN  fold_coverages' =
              IF Len(fold_residuals) = 0 THEN fold_coverages
              ELSE Append(fold_coverages,
                          FoldCoverage(cal_fold + 1,
                                       CoverageRatio(fold_residuals, alpha_low, alpha_high),
                                       Len(fold_residuals)))
    /\ cal_fold' = cal_fold + 1
    /\ UNCHANGED <<cal_pc, cal_in, lower_idx, upper_idx, alpha_low, alpha_high, coverage,
                   cal_branch, cal_iters, cal_prev>>
    /\ UNCHANGED <<p10, p50, p90, cal_log, cal_calls>>
    /\ UNCHANGED calRest

\* one pass of the per-fold loop
CalFold ==
    /\ cal_pc = "folds"
    /\ cal_fold < Len(cal_in.folds)
    /\ LET fold_residuals == cal_in.folds[cal_fold + 1]
       IN  fold_coverages' =
              IF Len(fold_residuals) = 0
              THEN Append(fold_coverages, FoldCoverage(cal_fold + 1, NaN, 0))
              ELSE Append(fold_coverages,
                          FoldCoverage(cal_fold + 1,
                                       CoverageRatio(fold_residuals, alpha_low, alpha_high),
                                       Len(fold_residuals)))
    /\ cal_fold' = cal_fold + 1
    /\ UNCHANGED <<cal_pc, cal_in, lower_idx, upper_idx, alpha_low, alpha_high, coverage,
                   cal_branch, cal_iters, cal_prev>>
    /\ UNCHANGED <<p10, p50, p90, cal_log, cal_calls>>
    /\ UNCHANGED calRest

\* np.percentile(column, 50): the middle of the sorted column, the mean of
\* the two middle values when their number is even
Percentile50(col) ==
    LET srt == SortSeq(col, LAMBDA a, b : a < b)
        m   == Len(srt)
    IN  IF m % 2 = 1 THEN R(srt[(m + 1) \div 2])
        ELSE Frac(srt[m \div 2] + srt[(m \div 2) + 1], 2)
Column(samples, j) == [i \in 1..Len(samples) |-> samples[i][j]]
Median(samples) == [j \in 1..Len(samples[1]) |-> Percentile50(Column(samples, j))]

\* p10 = p50 + alpha_low; p90 = p50 + alpha_high
LowerBand(median, lo) == [j \in 1..Len(median) |-> RAdd(median[j], R(lo))]
UpperBand(median, hi) == [j \in 1..Len(median) |-> RAdd(median[j], R(hi))]

CalReturn_RaisesOutOfBand ==
    /\ cal_pc = "folds"
    /\ cal_fold = Len(cal_in.folds)
    /\ cal_pc' = IF RLt(coverage, cal_in.band[1]) \/ RLt(cal_in.band[2], coverage)
                 THEN "raised" ELSE "returned"
    /\ p50' = Median(cal_in.samples)
    /\ p10' = LowerBand(Median(cal_in.samples), alpha_low)
    /\ p90' = UpperBand(Median(cal_in.samples), alpha_high)
    /\ UNCHANGED <<cal_in, lower_idx, upper_idx, alpha_low, alpha_high, coverage,
                   cal_fold, fold_coverages, cal_branch, cal_iters, cal_prev>>
    /\ UNCHANGED <<cal_log, cal_calls>>
    /\ UNCHANGED calRest

\* the plot is saved, the warnings are printed, the bands are computed and
\* the CalibrationResult is returned
CalReturn ==
    /\ cal_pc = "folds"
    /\ cal_fold = Len(cal_in.folds)
    /\ cal_pc' = "returned"
    /\ p50' = Median(cal_in.samples)
    /\ p10' = LowerBand(Median(cal_in.samples), alpha_low)
    /\ p90' = UpperBand(Median(cal_in.samples), alpha_high)
    /\ UNCHANGED <<cal_in, lower_idx, upper_idx, alpha_low, alpha_high, coverage,
                   cal_fold, fold_coverages, cal_branch, cal_iters, cal_prev>>
    /\ UNCHANGED <<cal_log, cal_calls>>
    /\ UNCHANGED calRest

NextCal ==
    \/ CalRaises
    \/ CalSeed
    \/ CalWiden
    \/ CalWidenExit
    \/ CalNarrow
    \/ CalNarrowExit
    \/ CalFold
    \/ CalReturn

SpecCal == InitCal /\ [][NextCal]_vars

\* ------------------------------------------- repeated calibration calls
\* calls after the first one
MaxCalCalls == 2

CalInput(f, sd, b) ==
    [samples |-> <<<<1, 4>>, <<3, 0>>>>, folds |-> f, lower |-> sd[1], upper |-> sd[2],
     band |-> b]

\* the arguments of the repeated calls: a narrowing search, a widening
\* search, a seed already in the band, tied residuals over two folds, an
\* empty fold, and an empty mapping (rejected)
CalReplayInputs ==
    {CalInput(<<Ramp(5)>>, DefaultSeed, DefaultBand),
     CalInput(<<Ramp(6)>>, <<Frac(2, 5), Frac(3, 5)>>, <<Frac(1, 2), Frac(3, 5)>>),
     CalInput(<<Ramp(4), Ramp(8)>>, DefaultSeed, DefaultBand),
     CalInput(<<<<-1, 0>>, <<2>>>>, DefaultSeed, DefaultBand),
     CalInput(<<<<0, 2>>, <<>>>>, DefaultSeed, DefaultBand),
     CalInput(<<>>, DefaultSeed, DefaultBand)}

InitCalReplay ==
    /\ cal_pc = "start"
    /\ cal_in \in CalReplayInputs
    /\ lower_idx = 0
    /\ upper_idx = 0
    /\ alpha_low = 0
    /\ alpha_high = 0
    /\ coverage = NaN
    /\ cal_fold = 0
    /\ fold_coverages = <<>>
    /\ cal_branch = "none"
    /\ cal_iters = 0
    /\ cal_prev = NaN
    /\ p10 = <<>>
    /\ p50 = <<>>
    /\ p90 = <<>>
    /\ cal_log = {}
    /\ cal_calls = 0
    /\ PredictIdle
    /\ GateIdle
    /\ FitIdle
    /\ TrainIdle
    /\ BacktestIdle
    /\ LikIdle
    /\ ReplayIdle
    /\ RouteIdle
    /\ ServeIdle

\* what a call that returned handed to its caller
CalOutcome ==
    [in |-> cal_in, alpha_low |-> alpha_low, alpha_high |-> alpha_high,
     coverage |-> coverage, fold_coverages |-> fold_coverages]

\* the caller calls calibrate_intervals again: the new call starts with its
\* own arguments and fresh locals; nothing of the module survives the return
\* (the function reads and writes no global)
CalAgain ==
    /\ cal_pc \in {"returned", "raised"}
    /\ cal_calls < MaxCalCalls
    /\ cal_calls' = cal_calls + 1
    /\ cal_log' = IF cal_pc = "returned" THEN cal_log \cup {CalOutcome} ELSE cal_log
    /\ cal_in' \in CalReplayInputs
    /\ cal_pc' = "start"
    /\ cal_fold' = 0
    /\ fold_coverages' = <<>>
    /\ cal_branch' = "none"
    /\ cal_iters' = 0
    /\ cal_prev' = NaN
    /\ UNCHANGED <<lower_idx, upper_idx, alpha_low, alpha_high, coverage, p10, p50, p90>>
    /\ UNCHANGED calRest

NextCalReplay ==
    \/ NextCal
    \/ CalAgain

SpecCalReplay == InitCalReplay /\ [][NextCalReplay]_vars

CalInBand == RLe(cal_in.band[1], coverage) /\ RLe(coverage, cal_in.band[2])
CalDistinct ==
    \A i, j \in 1..NResiduals(cal_in.folds) :
       i # j => AllResiduals(cal_in.folds)[i] # AllResiduals(cal_in.folds)[j]

\* C16: when calibrate_intervals returns, the overall coverage lies inside
\* the target band, or the search was exhausted: after widening both edges
\* are the lowest and the highest pooled residual, after narrowing the two
\* edges have met.
C16_AsStated ==
    cal_pc = "returned" =>
       \/ CalInBand
       \/ /\ cal_branch = "widen"
          /\ lower_idx = 0
          /\ upper_idx = NResiduals(cal_in.folds) - 1
       \/ /\ cal_branch = "narrow"
          /\ lower_idx = upper_idx

\* C17: for pairwise distinct pooled residuals, the default seed quantiles
\* and the default band, the returned overall coverage lies in [0.80, 0.95].
C17_AsStated ==
    (/\ cal_pc = "returned"
     /\ CalDistinct
     /\ <<cal_in.lower, cal_in.upper>> = DefaultSeed
     /\ cal_in.band = DefaultBand)
    => CalInBand

\* C18: with n pooled residuals and step = max(ceil(0.01 n), 1), the search
\* loop (widening or narrowing) never runs more than ceil((n - 1) / step)
\* times, and never more than 100 times.
C18_IterationBound ==
    cal_pc \in {"widen", "narrow", "folds", "returned"} =>
       LET n  == NResiduals(cal_in.folds)
           st == IF (n + 99) \div 100 > 1 THEN (n + 99) \div 100 ELSE 1
       IN  /\ cal_iters <= (n - 1 + st - 1) \div st
           /\ cal_iters <= 100

\* a widening search over 150 residuals with step 2 that needed more than 50
\* iterations has returned
C18_Witness ==
    /\ cal_pc = "returned"
    /\ cal_branch = "widen"
    /\ NResiduals(cal_in.folds) = 150
    /\ cal_iters > 50

\* C19: a widening iteration never lowers the overall coverage and a
\* narrowing iteration never raises it.
C19_Monotonic ==
    (cal_iters > 0 /\ cal_pc \in {"widen", "narrow"}) =>
       /\ cal_pc = "widen" => RLe(cal_prev, coverage)
       /\ cal_pc = "narrow" => RLe(coverage, cal_prev)

\* a narrowing iteration over residuals with ties has lowered the coverage,
\* after an earlier one that left it unchanged
C19_Witness ==
    /\ cal_pc = "narrow"
    /\ cal_iters > 1
    /\ RLt(coverage, cal_prev)
    /\ RLt(cal_prev, R(1))
    /\ ~CalDistinct

\* residuals of a fold inside [lo, hi], counted one by one
InsideCount(res, lo, hi) == Cardinality({j \in 1..Len(res) : lo <= res[j] /\ res[j] <= hi})

\* sum of count * coverage over the entries, in floating-point terms: an
\* entry with a NaN coverage makes the sum NaN
RECURSIVE WeightedCoverage(_)
WeightedCoverage(fcs) ==
    IF fcs = <<>> THEN R(0)
    ELSE RAdd(RMul(R(Head(fcs).count), Head(fcs).coverage), WeightedCoverage(Tail(fcs)))

NonEmptyEntries(fcs) == SelectSeq(fcs, LAMBDA fc : fc.count > 0)

\* C20 as stated: every fold appears once, with its number of residuals and
\* the fraction of them inside the returned band, and the count-weighted sum
\* of the fold coverages is the overall coverage times the pooled count.
C20_AsStated ==
    cal_pc = "returned" =>
       /\ Len(fold_coverages) = Len(cal_in.folds)
       /\ \A i \in 1..Len(cal_in.folds) :
             /\ fold_coverages[i].fold_id = i
             /\ fold_coverages[i].count = Len(cal_in.folds[i])
             /\ fold_coverages[i].coverage
                   = Frac(InsideCount(cal_in.folds[i], alpha_low, alpha_high),
                          Len(cal_in.folds[i]))
       /\ WeightedCoverage(fold_coverages)
             = RMul(coverage, R(NResiduals(cal_in.folds)))

\* C20: every fold appears once, in the mapping's order, with its number of
\* residuals; a fold with residuals has the fraction of them inside the
\* returned band, a fold without residuals has count 0 and coverage NaN; the
\* count-weighted sum over the folds with residuals is the overall coverage
\* times the pooled count.
C20_FoldCoverage ==
    cal_pc = "returned" =>
       /\ Len(fold_coverages) = Len(cal_in.folds)
       /\ \A i \in 1..Len(cal_in.folds) :
             /\ fold_coverages[i].fold_id = i
             /\ fold_coverages[i].count = Len(cal_in.folds[i])
             /\ Len(cal_in.folds[i]) = 0 => IsNaN(fold_coverages[i].coverage)
             /\ Len(cal_in.folds[i]) > 0 =>
                   /\ ~IsNaN(fold_coverages[i].coverage)
                   /\ RMul(fold_coverages[i].coverage, R(Len(cal_in.folds[i])))
                         = R(InsideCount(cal_in.folds[i], alpha_low, alpha_high))
       /\ WeightedCoverage(NonEmptyEntries(fold_coverages))
             = RMul(coverage, R(NResiduals(cal_in.folds)))

\* a search that moved the band has returned two folds with residuals whose
\* coverages differ from each other and from the overall coverage
C20_Witness ==
    /\ cal_pc = "returned"
    /\ cal_iters > 0
    /\ Len(fold_coverages) = 2
    /\ fold_coverages[1].count > 0
    /\ fold_coverages[2].count > 0
    /\ fold_coverages[1].coverage # fold_coverages[2].coverage
    /\ fold_coverages[1].coverage # coverage
    /\ fold_coverages[2].coverage # coverage

C23_AsStated ==
    cal_pc = "returned" =>
       \A j \in 1..Len(p50) :
          /\ p10[j] = RAdd(p50[j], R(alpha_low))
          /\ p90[j] = RAdd(p50[j], R(alpha_high))
          /\ RLe(p10[j], p50[j])
          /\ RLe(p50[j], p90[j])

\* C27: from the seed interval on, after every iteration and in the result,
\* 0 <= lower_idx <= upper_idx <= n - 1 and alpha_low <= alpha_high.
C27_EdgesOrdered ==
    cal_pc \in {"widen", "narrow", "folds", "returned"} =>
       /\ 0 <= lower_idx
       /\ lower_idx <= upper_idx
       /\ upper_idx <= NResiduals(cal_in.folds) - 1
       /\ alpha_low <= alpha_high

\* a narrowing search with step 2 has run until the two edges met
C27_Witness ==
    /\ cal_pc = "returned"
    /\ cal_branch = "narrow"
    /\ cal_iters > 1
    /\ Step(NResiduals(cal_in.folds)) = 2
    /\ lower_idx = upper_idx

\* ------------------------------------------ claims on in-sample predictions
\* C30, as stated: in train, the in-sample prediction of row t is the
\* one-step-ahead conditional mean of row t, whose AR terms are the observed
\* counts of rows t-1 .. t-p: never an observation at or after t, never an
\* earlier prediction.
C30_AsStated ==
    (~IsNone(tr_preds) /\ ~IsNone(tr_fitted)
        /\ The(tr_fitted).model.kind = "INGARCH") =>
        LET m == The(tr_fitted).model
        IN  \A t \in TrainStartIdx..(Len(tr_in.y) - 1) :
                The(tr_preds)[t + 1] = ComputeConditionalMean(m, The(m.params), t)

\* ------------------------------------------ claims on repeated calibration
\* C22: two calls with the same residuals, folds, seeds and band return the
\* same alpha_low, alpha_high, overall coverage and per-fold coverages,
\* whatever calls were made before or in between.
C22_Idempotent ==
    cal_pc = "returned" =>
       \A e \in cal_log :
          (/\ e.in.folds = cal_in.folds
           /\ e.in.lower = cal_in.lower
           /\ e.in.upper = cal_in.upper
           /\ e.in.band = cal_in.band) =>
              /\ e.alpha_low = alpha_low
              /\ e.alpha_high = alpha_high
              /\ e.coverage = coverage
              /\ e.fold_coverages = fold_coverages

\* a narrowing call returned, a widening call on other residuals came next,
\* and a third call repeated the arguments of the first
C22_Witness ==
    /\ cal_pc = "returned"
    /\ cal_calls = 2
    /\ cal_branch = "narrow"
    /\ \E e \in cal_log : e.in = cal_in
    /\ \E e \in cal_log : e.in # cal_in /\ e.alpha_low # alpha_low

\* ------------------------------------------------ POST /api/train (routes)
\* fewest rows a dataset may have
MinRows == 30
MAX_TRAINING_ROWS == 10000

\* row counts around the minimum
RowCounts == {1, MinRows - 1, MinRows, MinRows + 1}
\* the visit counts of a dataset: all 3 but one row, which is negative, zero
\* or positive
RouteRows ==
    {[i \in 1..n |-> IF i = k THEN x ELSE 3] :
        n \in RowCounts, k \in {1, MinRows - 1}, x \in {-5, 0, 7}}
\* a CSV upload or a JSON records payload; no rows: an empty file, an empty
\* records list
RouteRequests == {[kind |-> kd, rows |-> r] : kd \in {"upload", "json"}, r \in RouteRows \cup {<<>>}}
\* what the visits table holds before the request
VisitTables == {<<>>, <<4, 4>>}

\* (df['visits'] < 0).any(); Field(ge=0) of LiteRecord
HasNegative(rows) == \E i \in 1..Len(rows) : rows[i] < 0

\* the multipart branch: 200 when _prepare_dataset returns
UploadStatus(rows) ==
    IF rows = <<>> THEN 400
    ELSE IF Len(rows) < MinRows THEN 400
    ELSE IF HasNegative(rows) THEN 400
    ELSE 200

\* the JSON branch: the records are validated one by one before they are
\* counted
JsonStatus(rows) ==
    IF rows = <<>> THEN 400
    ELSE IF HasNegative(rows) THEN 422
    ELSE IF Len(rows) < MinRows THEN 400
    ELSE IF Len(rows) > MAX_TRAINING_ROWS THEN 400
    ELSE 200

PrepareStatus(req) ==
    IF req.kind = "upload" THEN UploadStatus(req.rows) ELSE JsonStatus(req.rows)

InitRoute ==
    /\ rt_pc = "request"
    /\ rt_req \in RouteRequests
    /\ status_code = 0
    /\ visits_table \in VisitTables
    /\ rt_visits0 = visits_table
    /\ warnings = <<>>
    /\ rt_step = "none"
    /\ rt_k = 0
    /\ events = <<>>
    /\ rt_trained = 0
    /\ PredictIdle
    /\ GateIdle
    /\ FitIdle
    /\ TrainIdle
    /\ BacktestIdle
    /\ LikIdle
    /\ ReplayIdle
    /\ CalIdle
    /\ ServeIdle

PrepareRejects_AfterDelete ==
    /\ rt_pc = "request"
    /\ PrepareStatus(rt_req) # 200
    /\ status_code' = PrepareStatus(rt_req)
    /\ visits_table' = <<>>
    /\ rt_pc' = "rejected"
    /\ UNCHANGED <<rt_req, rt_visits0, warnings, rt_step, rt_k, events, rt_trained>>
    /\ UNCHANGED routeRest

\* _prepare_dataset raises HTTPException: trigger_training never builds the
\* stream
PrepareRejects ==
    /\ rt_pc = "request"
    /\ PrepareStatus(rt_req) # 200
    /\ status_code' = PrepareStatus(rt_req)
    /\ rt_pc' = "rejected"
    /\ UNCHANGED <<rt_req, visits_table, rt_visits0, warnings, rt_step, rt_k, events,
                   rt_trained>>
    /\ UNCHANGED routeRest

\* _prepare_dataset returns: the visits table is emptied and refilled with
\* the dataset; a storage failure before or after the DELETE only adds a
\* warning, and so does the shift of old dates; the stream is opened
PrepareStores ==
    /\ rt_pc = "request"
    /\ PrepareStatus(rt_req) = 200
    /\ \/ /\ visits_table' = rt_req.rows
          /\ warnings' \in {<<>>, <<"shifted">>}
       \/ /\ visits_table' \in {<<>>, visits_table}
          /\ warnings' = <<"not stored">>
    /\ status_code' = 200
    /\ rt_pc' = "stream"
    /\ rt_step' = "started"
    /\ UNCHANGED <<rt_req, rt_visits0, rt_k, events, rt_trained>>
    /\ UNCHANGED routeRest

\* the progress values of the ingarch_training events sent before the fit,
\* and the one sent after it
ProgressSteps == <<0, 10, 20, 30, 40, 50, 55, 60, 65, 70, 75, 80, 85, 90, 93, 96>>
SavingProgress == 98

\* _sse(event, payload): the event name and the progress the payload carries
Sse(event, progress) == [event |-> event, progress |-> progress]

TerminalEvents == {"done", "error"}

PipeStarted ==
    /\ rt_pc = "stream"
    /\ rt_step = "started"
    /\ events' = Append(events, Sse("started", None))
    /\ rt_step' = IF warnings # <<>> THEN "warning" ELSE "features"
    /\ UNCHANGED <<rt_pc, rt_req, status_code, visits_table, rt_visits0, warnings, rt_k,
                   rt_trained>>
    /\ UNCHANGED routeRest

PipeWarning ==
    /\ rt_pc = "stream"
    /\ rt_step = "warning"
    /\ events' = Append(events, Sse("warning", None))
    /\ rt_step' = "features"
    /\ UNCHANGED <<rt_pc, rt_req, status_code, visits_table, rt_visits0, warnings, rt_k,
                   rt_trained>>
    /\ UNCHANGED routeRest

\* _build_feature_frame returned
PipeFeatures ==
    /\ rt_pc = "stream"
    /\ rt_step = "features"
    /\ events' = Append(events, Sse("features", None))
    /\ rt_step' = "progress"
    /\ rt_k' = 1
    /\ UNCHANGED <<rt_pc, rt_req, status_code, visits_table, rt_visits0, warnings,
                   rt_trained>>
    /\ UNCHANGED routeRest

\* the next ingarch_training event before the fit
PipeProgress ==
    /\ rt_pc = "stream"
    /\ rt_step = "progress"
    /\ events' = Append(events, Sse("ingarch_training", Some(ProgressSteps[rt_k])))
    /\ rt_k' = rt_k + 1
    /\ rt_step' = IF rt_k = Len(ProgressSteps) THEN "train" ELSE "progress"
    /\ UNCHANGED <<rt_pc, rt_req, status_code, visits_table, rt_visits0, warnings,
                   rt_trained>>
    /\ UNCHANGED routeRest

\* train_ingarch.train returned
PipeTrain ==
    /\ rt_pc = "stream"
    /\ rt_step = "train"
    /\ rt_trained' = rt_trained + 1
    /\ rt_step' = "saving"
    /\ UNCHANGED <<rt_pc, rt_req, status_code, visits_table, rt_visits0, warnings, rt_k,
                   events>>
    /\ UNCHANGED routeRest

PipeSaving ==
    /\ rt_pc = "stream"
    /\ rt_step = "saving"
    /\ events' = Append(events, Sse("ingarch_training", Some(SavingProgress)))
    /\ rt_step' = "ingarch"
    /\ UNCHANGED <<rt_pc, rt_req, status_code, visits_table, rt_visits0, warnings, rt_k,
                   rt_trained>>
    /\ UNCHANGED routeRest

PipeIngarch ==
    /\ rt_pc = "stream"
    /\ rt_step = "ingarch"
    /\ events' = Append(events, Sse("ingarch", None))
    /\ rt_step' = "done"
    /\ UNCHANGED <<rt_pc, rt_req, status_code, visits_table, rt_visits0, warnings, rt_k,
                   rt_trained>>
    /\ UNCHANGED routeRest

PipeDone ==
    /\ rt_pc = "stream"
    /\ rt_step = "done"
    /\ events' = Append(events, Sse("done", None))
    /\ rt_step' = "end"
    /\ UNCHANGED <<rt_pc, rt_req, status_code, visits_table, rt_visits0, warnings, rt_k,
                   rt_trained>>
    /\ UNCHANGED routeRest

PipeError_AlsoAfterDone ==
    /\ rt_pc = "stream"
    /\ rt_step \in {"features", "train", "ingarch", "end"}
    /\ rt_trained' = IF rt_step = "train" THEN rt_trained + 1 ELSE rt_trained
    /\ events' = Append(events, Sse("error", None))
    /\ rt_step' = "end"
    /\ UNCHANGED <<rt_pc, rt_req, status_code, visits_table, rt_visits0, warnings, rt_k>>
    /\ UNCHANGED routeRest

\* an exception inside the try block: _build_feature_frame or
\* train_ingarch.train raised, or the ingarch payload could not be serialised
PipeError ==
    /\ rt_pc = "stream"
    /\ rt_step \in {"features", "train", "ingarch"}
    /\ rt_trained' = IF rt_step = "train" THEN rt_trained + 1 ELSE rt_trained
    /\ events' = Append(events, Sse("error", None))
    /\ rt_step' = "end"
    /\ UNCHANGED <<rt_pc, rt_req, status_code, visits_table, rt_visits0, warnings, rt_k>>
    /\ UNCHANGED routeRest

\* the generator is exhausted: the response ends
PipeClose ==
    /\ rt_pc = "stream"
    /\ rt_step = "end"
    /\ rt_pc' = "closed"
    /\ UNCHANGED <<rt_req, status_code, visits_table, rt_visits0, warnings, rt_step, rt_k,
                   events, rt_trained>>
    /\ UNCHANGED routeRest

NextRoute ==
    \/ PrepareRejects
    \/ PrepareStores
    \/ PipeStarted
    \/ PipeWarning
    \/ PipeFeatures
    \/ PipeProgress
    \/ PipeTrain
    \/ PipeSaving
    \/ PipeIngarch
    \/ PipeDone
    \/ PipeError
    \/ PipeClose

SpecRoute == InitRoute /\ [][NextRoute]_vars

\* C24: a training request whose dataset has fewer than 30 rows or a
\* negative visit count is answered with a 4xx status and nothing else
\* happens: the visits table is as it was when the request arrived, train was
\* not called and no event was streamed.
C24_RejectedBeforeFitting ==
    (rt_pc \notin {"off", "request"}
        /\ (Len(rt_req.rows) < MinRows \/ HasNegative(rt_req.rows))) =>
        /\ rt_pc = "rejected"
        /\ status_code \in 400..499
        /\ visits_table = rt_visits0
        /\ rt_trained = 0
        /\ events = <<>>

\* an upload with enough rows, one of them negative, was rejected while the
\* visits table held earlier history
C24_Witness ==
    /\ rt_pc = "rejected"
    /\ rt_req.kind = "upload"
    /\ Len(rt_req.rows) >= MinRows
    /\ HasNegative(rt_req.rows)
    /\ visits_table # <<>>

\* C25: every training event stream begins with 'started'; the progress
\* values of successive progress events strictly increase; a terminal event
\* ('done' or 'error') is the last event of the stream, so there is at most
\* one; and a stream that has ended ends with one.
C25_ProgressProtocol ==
    /\ events # <<>> => events[1].event = "started"
    /\ \A i, j \in 1..Len(events) :
          (i < j /\ ~IsNone(events[i].progress) /\ ~IsNone(events[j].progress)) =>
              The(events[i].progress) < The(events[j].progress)
    /\ \A i \in 1..Len(events) : events[i].event \in TerminalEvents => i = Len(events)
    /\ rt_pc = "closed" =>
          /\ events # <<>>
          /\ events[Len(events)].event \in TerminalEvents

\* a stream with a warning that sent every progress event and ended with
\* 'error' because the fit raised
C25_Witness ==
    /\ rt_pc = "closed"
    /\ warnings # <<>>
    /\ rt_trained = 1
    /\ Len(events) = Len(ProgressSteps) + 4
    /\ events[Len(events)].event = "error"

\* ------------------------------- training runs and the forecast service
\* training runs of one mode; each run's model is named after the run
MaxRuns == 2
Runs == 1..MaxRuns
\* how often the clock advances, and how many forecast requests are made
MaxTicks == 2
MaxRequests == 3

CACHE_DEFAULT_TTL == 3600
CACHE_MIN_TTL == 300
CACHE_MAX_TTL == 86400
\* cache_ttl_seconds as persisted in the settings
TtlSettings == {60, CACHE_DEFAULT_TTL}
\* seconds the clock advances by: within a second's reach, or past the
\* shortest time a cached forecast lives
ClockSteps == {1, CACHE_MIN_TTL + 1}

\* ttl = max(CACHE_MIN_TTL, min(CACHE_MAX_TTL, ttl))
ClampTtl(ttl) == IntMax(CACHE_MIN_TTL, IntMin(CACHE_MAX_TTL, ttl))

\* the row register_model writes: the name is built from the version stamp
\* and trained_at is CURRENT_TIMESTAMP, both with a resolution of one second
ModelRow(run, now) == [name |-> now, trained_at |-> now, run |-> run]

\* INSERT OR REPLACE under UNIQUE(name, mode, model_type)
InsertOrReplace(rows, row) == {m \in rows : m.name # row.name} \cup {row}

\* ORDER BY trained_at DESC LIMIT 1
GetLatestModel(rows) ==
    IF rows = {} THEN None
    ELSE Some(CHOOSE m \in rows : \A o \in rows : o.trained_at <= m.trained_at)

\* get_cached_forecast: the row's payload unless expires_at < now
GetCachedForecast(row, now) ==
    IF IsNone(row) THEN None
    ELSE IF The(row).expires_at < now THEN None
    ELSE Some(The(row).payload)

NoModelResponse == [status |-> "no_models", model |-> 0, trained_at |-> 0, cache_hit |-> FALSE]

InitServe ==
    /\ sv_clock = 0
    /\ sv_ticks = 0
    /\ sv_run = [r \in Runs |-> "idle"]
    /\ sv_artifact = 0
    /\ models = {}
    /\ sv_regorder = <<>>
    /\ model_cache = None
    /\ forecast_cache = None
    /\ fc_pc = "idle"
    /\ fc_cfg = <<>>
    /\ fc_info = None
    /\ fc_bundle = None
    /\ fc_resp = None
    /\ fc_seen = 0
    /\ fc_count = 0
    /\ PredictIdle
    /\ GateIdle
    /\ FitIdle
    /\ TrainIdle
    /\ BacktestIdle
    /\ LikIdle
    /\ ReplayIdle
    /\ CalIdle
    /\ RouteIdle

\* one second or more passes
Tick ==
    /\ sv_ticks < MaxTicks
    /\ sv_ticks' = sv_ticks + 1
    /\ \E d \in ClockSteps : sv_clock' = sv_clock + d
    /\ UNCHANGED <<sv_run, sv_artifact, models, sv_regorder, model_cache, forecast_cache,
                   fc_pc, fc_cfg, fc_info, fc_bundle, fc_resp, fc_seen, fc_count>>
    /\ UNCHANGED serveRest

\* joblib.dump(model_info, artifact_path): every run of a mode writes the
\* same file
RunDump(r) ==
    /\ sv_run[r] = "idle"
    /\ sv_artifact' = r
    /\ sv_run' = [sv_run EXCEPT ![r] = "dumped"]
    /\ UNCHANGED <<sv_clock, sv_ticks, models, sv_regorder, model_cache, forecast_cache,
                   fc_pc, fc_cfg, fc_info, fc_bundle, fc_resp, fc_seen, fc_count>>
    /\ UNCHANGED serveRest

\* ModelRepository.register_model succeeded
RunRegister(r) ==
    /\ sv_run[r] = "dumped"
    /\ models' = InsertOrReplace(models, ModelRow(r, sv_clock))
    /\ sv_regorder' = Append(sv_regorder, r)
    /\ sv_run' = [sv_run EXCEPT ![r] = "registered"]
    /\ UNCHANGED <<sv_clock, sv_ticks, sv_artifact, model_cache, forecast_cache,
                   fc_pc, fc_cfg, fc_info, fc_bundle, fc_resp, fc_seen, fc_count>>
    /\ UNCHANGED serveRest

\* register_model returned False or raised: train only prints a message
RunRegisterFails(r) ==
    /\ sv_run[r] = "dumped"
    /\ sv_run' = [sv_run EXCEPT ![r] = "failed"]
    /\ UNCHANGED <<sv_clock, sv_ticks, sv_artifact, models, sv_regorder, model_cache,
                   forecast_cache, fc_pc, fc_cfg, fc_info, fc_bundle, fc_resp, fc_seen,
                   fc_count>>
    /\ UNCHANGED serveRest

\* forecast: caching is enabled and the forecast cache has a live row, which
\* is returned as it is
ForecastFromCache ==
    /\ fc_pc = "idle"
    /\ fc_count < MaxRequests
    /\ ~IsNone(GetCachedForecast(forecast_cache, sv_clock))
    /\ \E ttl \in TtlSettings : fc_cfg' = [enabled |-> TRUE, ttl |-> ClampTtl(ttl)]
    /\ fc_resp' = Some([The(GetCachedForecast(forecast_cache, sv_clock))
                          EXCEPT !.cache_hit = TRUE])
    /\ fc_seen' = Len(sv_regorder)
    /\ fc_pc' = "answered"
    /\ UNCHANGED <<sv_clock, sv_ticks, sv_run, sv_artifact, models, sv_regorder,
                   model_cache, forecast_cache, fc_info, fc_bundle, fc_count>>
    /\ UNCHANGED serveRest

\* forecast: caching is disabled, or the forecast cache has no live row
ForecastMiss ==
    /\ fc_pc = "idle"
    /\ fc_count < MaxRequests
    /\ \E en \in BOOLEAN, ttl \in TtlSettings :
          /\ en => IsNone(GetCachedForecast(forecast_cache, sv_clock))
          /\ fc_cfg' = [enabled |-> en, ttl |-> ClampTtl(ttl)]
    /\ fc_seen' = Len(sv_regorder)
    /\ fc_pc' = "load"
    /\ UNCHANGED <<sv_clock, sv_ticks, sv_run, sv_artifact, models, sv_regorder,
                   model_cache, forecast_cache, fc_info, fc_bundle, fc_resp, fc_count>>
    /\ UNCHANGED serveRest

\* _load_model_bundle up to the comparison of the cached stamp with the
\* latest row's
LoadLookup ==
    /\ fc_pc = "load"
    /\ fc_seen' = Len(sv_regorder)
    /\ LET model_info == GetLatestModel(models)
       IN  IF IsNone(model_info)
           THEN /\ fc_resp' = Some(NoModelResponse)
                /\ fc_pc' = "answered"
                /\ UNCHANGED <<fc_info, fc_bundle>>
           ELSE IF ~IsNone(model_cache)
                   /\ The(model_cache).model_info.trained_at = The(model_info).trained_at
           THEN /\ fc_bundle' = model_cache
                /\ fc_pc' = "compute"
                /\ UNCHANGED <<fc_info, fc_resp>>
           ELSE /\ fc_info' = model_info
                /\ fc_pc' = "artifact"
                /\ UNCHANGED <<fc_bundle, fc_resp>>
    /\ UNCHANGED <<sv_clock, sv_ticks, sv_run, sv_artifact, models, sv_regorder,
                   model_cache, forecast_cache, fc_cfg, fc_count>>
    /\ UNCHANGED serveRest

\* _load_model_bundle from joblib.load on: the file's model is paired with
\* the row read before and the bundle is cached
LoadArtifact ==
    /\ fc_pc = "artifact"
    /\ IF sv_artifact = 0
       THEN /\ fc_resp' = Some(NoModelResponse)
            /\ fc_pc' = "answered"
            /\ UNCHANGED <<model_cache, fc_bundle>>
       ELSE LET bundle == [model |-> sv_artifact, model_info |-> The(fc_info)]
            IN  /\ model_cache' = Some(bundle)
                /\ fc_bundle' = Some(bundle)
                /\ fc_pc' = "compute"
                /\ UNCHANGED fc_resp
    /\ UNCHANGED <<sv_clock, sv_ticks, sv_run, sv_artifact, models, sv_regorder,
                   forecast_cache, fc_cfg, fc_info, fc_seen, fc_count>>
    /\ UNCHANGED serveRest

\* the forecast is computed with the bundle's model and, when caching is
\* enabled, stored with its expiry
ForecastRespond ==
    /\ fc_pc = "compute"
    /\ LET response == [status |-> "success", model |-> The(fc_bundle).model,
                        trained_at |-> The(fc_bundle).model_info.trained_at,
                        cache_hit |-> FALSE]
       IN  /\ fc_resp' = Some(response)
           /\ forecast_cache' =
                 IF fc_cfg.enabled
                 THEN Some([payload |-> response, expires_at |-> sv_clock + fc_cfg.ttl])
                 ELSE forecast_cache
    /\ fc_pc' = "answered"
    /\ UNCHANGED <<sv_clock, sv_ticks, sv_run, sv_artifact, models, sv_regorder,
                   model_cache, fc_cfg, fc_info, fc_bundle, fc_seen, fc_count>>
    /\ UNCHANGED serveRest

\* the response has been sent; the service waits for the next request
ForecastReturn ==
    /\ fc_pc = "answered"
    /\ fc_pc' = "idle"
    /\ fc_count' = fc_count + 1
    /\ fc_info' = None
    /\ fc_bundle' = None
    /\ fc_resp' = None
    /\ UNCHANGED <<sv_clock, sv_ticks, sv_run, sv_artifact, models, sv_regorder,
                   model_cache, forecast_cache, fc_cfg, fc_seen>>
    /\ UNCHANGED serveRest

NextServe ==
    \/ Tick
    \/ \E r \in Runs : RunDump(r)
    \/ \E r \in Runs : RunRegister(r)
    \/ \E r \in Runs : RunRegisterFails(r)
    \/ ForecastFromCache
    \/ ForecastMiss
    \/ LoadLookup
    \/ LoadArtifact
    \/ ForecastRespond
    \/ ForecastReturn

SpecServe == InitServe /\ [][NextServe]_vars

\* the position of a run in the order of registration (0: not registered)
RegIndex(r) ==
    IF \E i \in 1..Len(sv_regorder) : sv_regorder[i] = r
    THEN CHOOSE i \in 1..Len(sv_regorder) : sv_regorder[i] = r
    ELSE 0

\* C28, as stated: under any interleaving of training runs and forecast
\* requests, a model load that starts after a run was registered returns the
\* model and the metadata of one and the same run, and that run is the one
\* registered last when the load started, or a later one: never an earlier
\* cached model, never the model of one run with the stamp of another.
C28_AsStated ==
    (fc_pc = "compute" /\ fc_seen > 0) =>
        LET bundle == The(fc_bundle)
        IN  /\ bundle.model = bundle.model_info.run
            /\ RegIndex(bundle.model_info.run) >= fc_seen

\* C29, as stated: a response served from the forecast cache was never
\* generated by a model that, when the request arrived, had been superseded
\* by a later registration.
C29_AsStated ==
    (fc_pc = "answered" /\ ~IsNone(fc_resp) /\ The(fc_resp).cache_hit) =>
        \A i \in 1..(fc_seen - 1) : sv_regorder[i] # The(fc_resp).model
====
